---- MODULE Spec2Model ----
(***************************************************************************)
(* A model of the Lumina-Mini RAG pipeline (src/app): the chunker, the     *)
(* tenacity retry wrapper of the provider calls, the ingestion pipeline,   *)
(* the prompt assembler and the query pipeline.                            *)
(*                                                                         *)
(* Each component has a specification of its own (SpecChunk, SpecRetry,    *)
(* SpecPrompt, SpecIngest, SpecQuery) over the same variables; a           *)
(* component that a specification does not run stays in its idle state.    *)
(*                                                                         *)
(* Strings are sequences of one-character strings; Python's 0-based        *)
(* positions are kept, so s[k] of Python is s[k + 1] here.                 *)
(***************************************************************************)
EXTENDS Integers, Sequences, FiniteSets, TLC

(***************************************************************************)
(* Bounds of the model                                                     *)
(***************************************************************************)
\* longest file path and highest chunk index handed to generate_chunk_id
MaxPathLen == 2
MaxChunkIndex == 12
\* longest raw text handed to chunk_text
MaxTextLen == 6
\* largest max_chunk_size argument handed to chunk_text
MaxWindow == 4
\* largest overlap argument handed to chunk_text
MaxOverlapArg == 3
\* the scan of chunk_text is followed until it has emitted this many chunks
MaxEmitted == 5
\* most documents handed to build_prompt, and most a search returns
MaxDocs == 3
\* a document text is a whole number of four-character tokens plus up to
\* this many characters
MaxRemainder == 1
\* most chunks the text of a file splits into
MaxFileChunks == 2
\* ingest_file calls followed in one behaviour
MaxIngestCalls == 2

(***************************************************************************)
(* Program constants                                                       *)
(***************************************************************************)
\* settings.MAX_CHUNK_SIZE
MAX_CHUNK_SIZE == 512
\* settings.CHUNK_OVERLAP
CHUNK_OVERLAP == 50
\* settings.MAX_RETRIES, the argument of stop_after_attempt
MAX_RETRIES == 3
\* wait_exponential(multiplier=1, min=2, max=10), in seconds
WAIT_MULTIPLIER == 1
WAIT_MIN == 2
WAIT_MAX == 10
\* settings.TOP_K_RESULTS
TOP_K_RESULTS == 5
\* build_prompt's default max_context_tokens
DEFAULT_MAX_CONTEXT_TOKENS == 3000
\* build_prompt truncates a document only into more than this many tokens
MIN_REMAINING_TOKENS == 100
\* calculate_token_count's estimate: one token per this many characters
CHARS_PER_TOKEN == 4

VARIABLES
    \* chunk_text: the arguments as passed (0 stands for None or 0, both falsy)
    raw_text, arg_max_chunk_size, arg_overlap,
    \* chunk_text: its locals
    text, max_chunk_size, overlap, start, end, chunks, ck_pc,
    \* a tenacity-wrapped provider call: the wrapped function, the attempt
    \* counter of the retry state, the number of remote calls made, the
    \* exception each failed remote call raised, the sleeps between the
    \* attempts, and what the call gave its caller
    rt_fn, attempt_number, rt_calls, rt_errors, rt_waits, rt_outcome, rt_pc,
    \* build_prompt: its arguments, and the context parts and the token
    \* counter its loop leaves
    pr_docs, max_context_tokens, context_parts, current_tokens, pr_pc,
    \* query: its arguments, the documents retrieved, the result returned
    \* or the exception raised, the failure a step met, the number of
    \* call_llm calls made
    question, top_k, retrieved_docs, q_result, q_exc, q_failed, llm_calls, q_pc,
    \* the files on disk and the collection of the vector store
    fs, store,
    \* ingest_file: its arguments, its locals (chunks, the loop index i, the
    \* embedding of chunk i, chunk_ids), the exception it raised, who called it
    file_path, metadata, in_chunks, in_i, embedding, chunk_ids, in_exc,
    in_caller, in_pc,
    \* ingest_directory: the files found, the position in them, results
    d_files, d_i, results, d_pc,
    \* history, read by the properties only: the chunk indexes embedded and
    \* upserted by the running ingest_file, the failure it met, the ids of
    \* the store when it was called, the last completed ingestion of each
    \* file, the outcome of each ingest_file of the running
    \* ingest_directory, the number of ingest_file calls so far, whether a
    \* file was rewritten since the last of them
    in_embedded, in_upserted, in_failed, ids_at_call, hist, d_log, in_calls,
    edited,
    \* generate_chunk_id called twice: the (file_path, chunk_index) of each
    \* call, and the ids returned so far
    id_in, id_out,
          \* get_embedding: its argument, where the call stands, what it
          \* logged, what it returned and what it raised
          emb_text, emb_pc, emb_log, emb_result, emb_exc,
          \* get_embeddings_batch: its arguments, the loop index, the vectors
          \* gathered, the requests sent to the provider, what it logged,
          \* returned and raised
          bt_texts, batch_size, bt_i, embeddings, bt_requests, bt_pc,
          bt_log, bt_result, bt_exc,
          \* a direct call of upsert_document: its arguments, the collection
          \* as it was when the call began, where the call stands, calls so far
          up_args, up_before, up_pc, up_calls,
          \* mongo_knn_search: the collection as the index scores it for the
          \* query, the arguments, the pipeline sent, the results, the
          \* exception, where the call stands
          kn_collection, kn_top_k, kn_filter, kn_pipeline, kn_results,
          kn_exc, kn_pc,
          \* two concurrent callers of upsert_document: the arguments of each,
          \* where each stands, the order in which their writes were applied
          cw_args, cw_pc, cw_order

chunkVars == <<raw_text, arg_max_chunk_size, arg_overlap,
               text, max_chunk_size, overlap, start, end, chunks, ck_pc>>

retryVars == <<rt_fn, attempt_number, rt_calls, rt_errors, rt_waits,
               rt_outcome, rt_pc>>

promptVars == <<pr_docs, max_context_tokens, context_parts, current_tokens,
                pr_pc>>

queryVars == <<question, top_k, retrieved_docs, q_result, q_exc, q_failed,
               llm_calls, q_pc>>

ingestVars == <<fs, store, file_path, metadata, in_chunks, in_i, embedding,
                chunk_ids, in_exc, in_caller, in_pc, d_files, d_i, results,
                d_pc, in_embedded, in_upserted, in_failed, ids_at_call, hist,
                d_log, in_calls, edited>>

chunkIdVars == <<id_in, id_out>>

embedVars == <<emb_text, emb_pc, emb_log, emb_result, emb_exc>>

batchVars == <<bt_texts, batch_size, bt_i, embeddings, bt_requests, bt_pc,
               bt_log, bt_result, bt_exc>>

upsertVars == <<up_args, up_before, up_pc, up_calls>>

searchVars == <<kn_collection, kn_top_k, kn_filter, kn_pipeline, kn_results,
                kn_exc, kn_pc>>

writerVars == <<cw_args, cw_pc, cw_order>>

vars == <<chunkVars, retryVars, promptVars, queryVars, ingestVars,
          chunkIdVars,
          embedVars,
          batchVars,
          upsertVars,
          searchVars,
          writerVars>>

(***************************************************************************)
(* Python's str operations                                                 *)
(***************************************************************************)
Alphabet == {"a", ".", "!", " "}

\* the characters \s matches and str.strip() removes
Whitespace == {" "}

SetMax(S) == CHOOSE x \in S : \A y \in S : y <= x

\* Python's max(a, b, c)
Max3(a, b, c) == SetMax({a, b, c})

\* A slice bound as CPython adjusts it: negative bounds count from the end.
AdjustIndex(i, n) ==
    IF i < 0 THEN (IF i + n < 0 THEN 0 ELSE i + n)
    ELSE IF i > n THEN n ELSE i

\* s[a:b]
Slice(s, a, b) ==
    LET lo == AdjustIndex(a, Len(s))
        hi == AdjustIndex(b, Len(s))
    IN  IF lo >= hi THEN <<>> ELSE SubSeq(s, lo + 1, hi)

\* s.rfind(sub, a, b): the highest position of sub inside s[a:b], or -1
RFind(s, sub, a, b) ==
    LET lo == AdjustIndex(a, Len(s))
        hi == AdjustIndex(b, Len(s))
        hits == {k \in lo..(hi - Len(sub)) : SubSeq(s, k + 1, k + Len(sub)) = sub}
    IN  IF hits = {} THEN -1 ELSE SetMax(hits)

RECURSIVE LStrip(_)
LStrip(s) ==
    IF s # <<>> /\ Head(s) \in Whitespace THEN LStrip(Tail(s)) ELSE s

RECURSIVE RStrip(_)
RStrip(s) ==
    IF s # <<>> /\ s[Len(s)] \in Whitespace
    THEN RStrip(SubSeq(s, 1, Len(s) - 1)) ELSE s

\* a faulty strip: the text is taken as it is
Strip_Nothing(s) == s

\* s.strip()
Strip(s) == RStrip(LStrip(s))

\* re.sub(r"\s+", " ", s)
RECURSIVE CollapseWhitespace(_)
CollapseWhitespace(s) ==
    IF s = <<>> THEN <<>>
    ELSE IF Head(s) \in Whitespace
         THEN <<" ">> \o CollapseWhitespace(LStrip(Tail(s)))
         ELSE <<Head(s)>> \o CollapseWhitespace(Tail(s))

\* a faulty normalization: the runs are collapsed but the ends not stripped
Normalize_NoStrip(s) == CollapseWhitespace(s)

\* re.sub(r"\s+", " ", text).strip()
Normalize(s) == Strip(CollapseWhitespace(s))

(***************************************************************************)
(* chunk_text                                                              *)
(***************************************************************************)
\* x or default
OrDefault(x, default) == IF x = 0 THEN default ELSE x

\* a faulty window end: the sentence boundaries are not looked for
WindowEnd_WordOnly(t, s, max_size) ==
    LET e == s + max_size
    IN  IF e < Len(t)
        THEN LET word_end == RFind(t, <<" ">>, s, e)
             IN  IF word_end > s THEN word_end ELSE e
        ELSE e

\* the end of the window that starts at s: the sentence or word boundary
\* the scan prefers, or s + max_size
WindowEnd(t, s, max_size) ==
    LET e == s + max_size
    IN  IF e < Len(t)
        THEN LET sentence_end == Max3(RFind(t, <<".", " ">>, s, e),
                                      RFind(t, <<"!", " ">>, s, e),
                                      RFind(t, <<"?", " ">>, s, e))
             IN  IF sentence_end > s
                 THEN sentence_end + 1
                 ELSE LET word_end == RFind(t, <<" ">>, s, e)
                      IN  IF word_end > s THEN word_end ELSE e
        ELSE e

\* a faulty EmitChunk: the chunk is appended without the test `if chunk`
EmitChunk_KeepEmpty(cs, t, s, e) == Append(cs, Strip(Slice(t, s, e)))

\* chunk = text[start:end].strip(); if chunk: chunks.append(chunk)
EmitChunk(cs, t, s, e) ==
    LET chunk == Strip(Slice(t, s, e))
    IN  IF chunk # <<>> THEN Append(cs, chunk) ELSE cs

\* start = end - overlap if end < len(text) else end
NextStart(t, e, ov) == IF e < Len(t) THEN e - ov ELSE e

\* the call, up to the loop: defaults, the empty input, the short text
ChunkCall ==
    /\ ck_pc = "call"
    /\ max_chunk_size' = OrDefault(arg_max_chunk_size, MAX_CHUNK_SIZE)
    /\ overlap' = OrDefault(arg_overlap, CHUNK_OVERLAP)
    /\ IF Strip(raw_text) = <<>>
       THEN /\ ck_pc' = "done"
            /\ chunks' = <<>>
            /\ text' = raw_text
       ELSE /\ text' = Normalize(raw_text)
            /\ IF Len(text') <= max_chunk_size'
               THEN ck_pc' = "done" /\ chunks' = <<text'>>
               ELSE ck_pc' = "loop" /\ chunks' = <<>>
    /\ start' = 0
    /\ UNCHANGED <<raw_text, arg_max_chunk_size, arg_overlap, end>>

\* one iteration of the while loop
ChunkStep ==
    /\ ck_pc = "loop"
    /\ start < Len(text)
    /\ Len(chunks) < MaxEmitted
    /\ end' = WindowEnd(text, start, max_chunk_size)
    /\ chunks' = EmitChunk(chunks, text, start, end')
    /\ start' = NextStart(text, end', overlap)
    /\ UNCHANGED <<raw_text, arg_max_chunk_size, arg_overlap,
                   text, max_chunk_size, overlap, ck_pc>>

\* the loop condition fails: return chunks
ChunkReturn ==
    /\ ck_pc = "loop"
    /\ ~(start < Len(text))
    /\ ck_pc' = "done"
    /\ UNCHANGED <<raw_text, arg_max_chunk_size, arg_overlap,
                   text, max_chunk_size, overlap, start, end, chunks>>

(***************************************************************************)
(* The provider calls: _call_embedding_api and _call_llm_api under         *)
(* tenacity's @retry                                                       *)
(***************************************************************************)
\* What a remote call (client.embeddings.create, chat.completions.create
\* and the indexing of its response) can raise: the openai package's
\* exceptions for HTTP 429, 5xx, a timeout, a connection failure, HTTP 400
\* and HTTP 401, and the IndexError of response.data[0] / choices[0].
ExceptionTypes ==
    {"RateLimitError", "InternalServerError", "APITimeoutError",
     "APIConnectionError", "BadRequestError", "AuthenticationError",
     "IndexError"}

\* The classes an exception is an instance of. Every error the openai
\* client raises for a request derives from openai.APIError; openai.Timeout
\* is the httpx.Timeout configuration class, which no exception derives from.
ClassesOf(e) ==
    CASE e \in {"RateLimitError", "InternalServerError", "BadRequestError",
                "AuthenticationError"}
            -> {e, "APIStatusError", "APIError", "OpenAIError", "Exception"}
      [] e = "APITimeoutError"
            -> {e, "APIConnectionError", "APIError", "OpenAIError", "Exception"}
      [] e = "APIConnectionError"
            -> {e, "APIError", "OpenAIError", "Exception"}
      [] OTHER -> {e, "Exception"}

\* isinstance(e, types)
IsInstance(e, types) == ClassesOf(e) \cap types # {}

ProviderFunctions == {"_call_embedding_api", "_call_llm_api"}

\* retry=retry_if_exception_type((...)) of each wrapped function
RetryTypes(fn) ==
    IF fn = "_call_embedding_api"
    THEN {"RateLimitError", "APIError"}
    ELSE {"RateLimitError", "APIError", "Timeout"}

\* retry_if_exception_type: is the attempt's exception one to retry?
ShouldRetry(fn, e) == IsInstance(e, RetryTypes(fn))

\* a faulty stop condition: MAX_RETRIES read as the number of retries, not
\* of attempts
StopAfterAttempt_Late(n) == n > MAX_RETRIES

\* stop=stop_after_attempt(settings.MAX_RETRIES)
StopAfterAttempt(n) == n >= MAX_RETRIES

Min(a, b) == IF a <= b THEN a ELSE b
Max(a, b) == IF a >= b THEN a ELSE b

\* a faulty wait: the exponential without its lower and upper limit
WaitExponential_Unclamped(n) == WAIT_MULTIPLIER * (2 ^ (n - 1))

\* wait=wait_exponential(multiplier=1, min=2, max=10): the sleep after
\* attempt n
WaitExponential(n) ==
    Max(Max(0, WAIT_MIN), Min(WAIT_MULTIPLIER * (2 ^ (n - 1)), WAIT_MAX))

\* a caller invokes the wrapped function
RetryCall(fn) ==
    /\ rt_pc = "idle"
    /\ rt_fn' = fn
    /\ attempt_number' = 1
    /\ rt_pc' = "attempt"
    /\ UNCHANGED <<rt_calls, rt_errors, rt_waits, rt_outcome>>

\* an attempt whose remote call answers: the wrapped function returns
AttemptReturns ==
    /\ rt_pc = "attempt"
    /\ rt_calls' = rt_calls + 1
    /\ rt_outcome' = "value"
    /\ rt_pc' = "returned"
    /\ UNCHANGED <<rt_fn, attempt_number, rt_errors, rt_waits>>

\* an attempt whose remote call raises e: re-raise e when it is not one to
\* retry, raise RetryError when the stop condition holds, else sleep and
\* go round again
AttemptRaises(e) ==
    /\ rt_pc = "attempt"
    /\ rt_calls' = rt_calls + 1
    /\ rt_errors' = Append(rt_errors, e)
    /\ IF ~ShouldRetry(rt_fn, e)
       THEN /\ rt_pc' = "raised"
            /\ rt_outcome' = e
            /\ UNCHANGED <<attempt_number, rt_waits>>
       ELSE IF StopAfterAttempt(attempt_number)
            THEN /\ rt_pc' = "raised"
                 /\ rt_outcome' = "RetryError"
                 /\ UNCHANGED <<attempt_number, rt_waits>>
            ELSE /\ rt_waits' = Append(rt_waits, WaitExponential(attempt_number))
                 /\ attempt_number' = attempt_number + 1
                 /\ UNCHANGED <<rt_pc, rt_outcome>>
    /\ UNCHANGED rt_fn

(***************************************************************************)
(* EmbeddingClient.get_embedding                                           *)
(***************************************************************************)
\* a faulty guard: only the empty string is refused
EmptyTextRequest_FalsyOnly(t) == t = <<>>

\* not text or not text.strip()
EmptyTextRequest(t) == t = <<>> \/ Strip(t) = <<>>

\* the event the except clauses log for e: RateLimitError is tried first,
\* then APIError, then Exception
EmbeddingFailureEvent(e) ==
    IF IsInstance(e, {"RateLimitError"}) THEN "embedding_rate_limit_exceeded"
    ELSE IF IsInstance(e, {"APIError"}) THEN "embedding_api_error"
    ELSE "embedding_generation_failed"

\* the call enters: an empty request is logged and refused with ValueError
\* before the try block; any other text goes to _call_embedding_api
GetEmbeddingCall ==
    /\ emb_pc = "call"
    /\ IF EmptyTextRequest(emb_text)
       THEN /\ emb_log' = Append(emb_log, "empty_text_embedding_request")
            /\ emb_exc' = "ValueError"
            /\ emb_pc' = "raised"
            /\ UNCHANGED retryVars
       ELSE /\ RetryCall("_call_embedding_api")
            /\ emb_pc' = "api"
            /\ UNCHANGED <<emb_log, emb_exc>>
    /\ UNCHANGED <<emb_text, emb_result>>

\* _call_embedding_api returned: log and return the embedding
GetEmbeddingReturns ==
    /\ emb_pc = "api"
    /\ rt_pc = "returned"
    /\ emb_log' = Append(emb_log, "embedding_generated")
    /\ emb_result' = "embedding"
    /\ emb_pc' = "returned"
    /\ UNCHANGED <<emb_text, emb_exc, retryVars>>

\* _call_embedding_api raised: each except clause logs and re-raises
GetEmbeddingRaises ==
    /\ emb_pc = "api"
    /\ rt_pc = "raised"
    /\ emb_log' = Append(emb_log, EmbeddingFailureEvent(rt_outcome))
    /\ emb_exc' = rt_outcome
    /\ emb_pc' = "raised"
    /\ UNCHANGED <<emb_text, emb_result, retryVars>>

(***************************************************************************)
(* EmbeddingClient.get_embeddings_batch. The provider is called directly,  *)
(* not through _call_embedding_api, so nothing is retried here.            *)
(***************************************************************************)
\* a faulty slice: the last text of every group is left out
BatchSlice_DropsLast(texts, i, b) ==
    [k \in 1..(Min(i + b, Len(texts)) - i - 1) |-> texts[i + k]]

\* texts[i : i + b] for 0 <= i and 1 <= b
BatchSlice(texts, i, b) ==
    [k \in 1..(Min(i + b, Len(texts)) - i) |-> texts[i + k]]

\* the vector the provider computes for a text
EmbeddingOf(t) == [embedding_of |-> t]

\* [item.embedding for item in response.data]: the provider answers a
\* request with one item per input, in the order of the inputs
BatchEmbeddings(batch) == [k \in 1..Len(batch) |-> EmbeddingOf(batch[k])]

\* what client.embeddings.create can raise
BatchExceptionTypes == ExceptionTypes \ {"IndexError"}

\* the call enters: no texts, nothing to do; range() with a step of zero
\* raises ValueError inside the try block; else the loop starts at 0
BatchCall ==
    /\ bt_pc = "call"
    /\ IF bt_texts = <<>>
       THEN /\ bt_result' = <<>>
            /\ bt_pc' = "returned"
            /\ UNCHANGED <<bt_log, bt_exc>>
       ELSE IF batch_size = 0
            THEN /\ bt_log' = Append(bt_log, "batch_embedding_failed")
                 /\ bt_exc' = "ValueError"
                 /\ bt_pc' = "raised"
                 /\ UNCHANGED bt_result
            ELSE /\ bt_pc' = "loop"
                 /\ UNCHANGED <<bt_log, bt_result, bt_exc>>
    /\ bt_i' = 0
    /\ embeddings' = <<>>
    /\ UNCHANGED <<bt_texts, batch_size, bt_requests>>

\* one round of the loop whose request is answered
BatchRequestReturns ==
    /\ bt_pc = "loop"
    /\ bt_i < Len(bt_texts)
    /\ LET batch == BatchSlice(bt_texts, bt_i, batch_size)
       IN  /\ bt_requests' = Append(bt_requests, batch)
           /\ embeddings' = embeddings \o BatchEmbeddings(batch)
    /\ bt_i' = bt_i + batch_size
    /\ UNCHANGED <<bt_texts, batch_size, bt_pc, bt_log, bt_result, bt_exc>>

\* one round of the loop whose request raises e: logged and re-raised, the
\* vectors gathered so far are dropped with the frame
BatchRequestRaises(e) ==
    /\ bt_pc = "loop"
    /\ bt_i < Len(bt_texts)
    /\ bt_requests' = Append(bt_requests, BatchSlice(bt_texts, bt_i, batch_size))
    /\ bt_log' = Append(bt_log, "batch_embedding_failed")
    /\ bt_exc' = e
    /\ bt_pc' = "raised"
    /\ UNCHANGED <<bt_texts, batch_size, bt_i, embeddings, bt_result>>

\* the range is exhausted: log and return the vectors
BatchReturn ==
    /\ bt_pc = "loop"
    /\ bt_i >= Len(bt_texts)
    /\ bt_log' = Append(bt_log, "batch_embeddings_generated")
    /\ bt_result' = embeddings
    /\ bt_pc' = "returned"
    /\ UNCHANGED <<bt_texts, batch_size, bt_i, embeddings, bt_requests, bt_exc>>

(***************************************************************************)
(* MongoDBClient.mongo_knn_search. A document of the collection is a       *)
(* record of its _id, the source of its metadata and the score the index   *)
(* gives it for the query vector.                                          *)
(***************************************************************************)
\* "numCandidates": 50
NUM_CANDIDATES == 50

\* the pipeline handed to collection.aggregate: $vectorSearch, $project and
\* $limit, and for a truthy filter_criteria a $match inserted at index 1
KnnPipeline(k, filter_criteria) ==
    LET search == [stage |-> "$vectorSearch", numCandidates |-> NUM_CANDIDATES,
                   limit |-> k]
        project == [stage |-> "$project"]
        limit == [stage |-> "$limit", limit |-> k]
        match == [stage |-> "$match", criteria |-> filter_criteria]
    IN  IF filter_criteria # <<>>
        THEN <<search, match, project, limit>>
        ELSE <<search, project, limit>>

\* the ids of docs by descending score, equal scores by ascending id
RECURSIVE ByDescendingScore(_)
ByDescendingScore(docs) ==
    IF docs = {} THEN <<>>
    ELSE LET best == CHOOSE d \in docs :
                        \A o \in docs :
                            \/ d.score > o.score
                            \/ d.score = o.score /\ d.id <= o.id
         IN  <<best>> \o ByDescendingScore(docs \ {best})

\* the first n elements of s
Take(s, n) == SubSeq(s, 1, Min(n, Len(s)))

\* $vectorSearch: the nearest numCandidates documents are considered and
\* the limit best of them go on, best first, each with its searchScore
VectorSearch(coll, stage) ==
    Take(Take(ByDescendingScore({coll[i] : i \in DOMAIN coll}),
              stage.numCandidates),
         stage.limit)

\* {"$match": criteria} with criteria on metadata fields
MatchesFilter(doc, criteria) ==
    \A key \in DOMAIN criteria : doc.metadata[key] = criteria[key]

\* one stage applied to the documents that reach it
RunStage(coll, docs, stage) ==
    CASE stage.stage = "$vectorSearch" -> VectorSearch(coll, stage)
      [] stage.stage = "$match" ->
            SelectSeq(docs, LAMBDA d : MatchesFilter(d, stage.criteria))
      [] stage.stage = "$project" ->
            [i \in DOMAIN docs |->
                [id |-> docs[i].id, metadata |-> docs[i].metadata,
                 score |-> docs[i].score]]
      [] stage.stage = "$limit" -> Take(docs, stage.limit)

\* collection.aggregate(pipeline): the stages run in order
RECURSIVE Aggregate(_, _, _)
Aggregate(coll, docs, pipeline) ==
    IF pipeline = <<>> THEN docs
    ELSE Aggregate(coll, RunStage(coll, docs, Head(pipeline)), Tail(pipeline))

\* the pipeline is built and answered: the results are logged and returned
KnnSearchReturns ==
    /\ kn_pc = "call"
    /\ kn_pipeline' = KnnPipeline(kn_top_k, kn_filter)
    /\ kn_results' = Aggregate(kn_collection, <<>>, kn_pipeline')
    /\ kn_pc' = "returned"
    /\ UNCHANGED <<kn_collection, kn_top_k, kn_filter, kn_exc>>

\* the pipeline is built and the server refuses it: logged and re-raised
KnnSearchRaises(e) ==
    /\ kn_pc = "call"
    /\ kn_pipeline' = KnnPipeline(kn_top_k, kn_filter)
    /\ kn_exc' = e
    /\ kn_pc' = "raised"
    /\ UNCHANGED <<kn_collection, kn_top_k, kn_filter, kn_results>>

(***************************************************************************)
(* build_prompt. A document text is represented by its number of           *)
(* characters, which is all that the token estimate len(text) // 4 and the *)
(* truncation text[: max_tokens * 4] of utils.py read (the estimator the   *)
(* repository itself implements; the tiktoken encoder is an external       *)
(* package).                                                               *)
(***************************************************************************)
\* len(text) // 4
calculate_token_count(t) == t \div CHARS_PER_TOKEN

\* a faulty truncation: the text comes back whole
truncate_text_Whole(t, max_tokens) == t

\* text[: max_tokens * 4], for max_tokens >= 0
truncate_text(t, max_tokens) == Min(t, max_tokens * CHARS_PER_TOKEN)

\* doc.get("text", "")
DocText(doc) == doc.text

\* the number of decimal digits of i >= 1, for the label of a document
RECURSIVE Digits(_)
Digits(i) == IF i < 10 THEN 1 ELSE 1 + Digits(i \div 10)

\* len(f"[Document {i}]\n{doc_text}")
PartLen(part) == 10 + Digits(part.index) + 2 + part.text

\* len("\n\n".join(context_parts))
RECURSIVE JoinedLen(_)
JoinedLen(parts) ==
    IF parts = <<>> THEN 0
    ELSE IF Len(parts) = 1 THEN PartLen(parts[1])
    ELSE PartLen(Head(parts)) + 2 + JoinedLen(Tail(parts))

\* the for loop of build_prompt from document i on
RECURSIVE BuildContext(_, _, _, _, _)
BuildContext(docs, i, parts, tokens, budget) ==
    IF i > Len(docs)
    THEN [context_parts |-> parts, current_tokens |-> tokens]
    ELSE LET doc_text == DocText(docs[i])
             doc_tokens == calculate_token_count(doc_text)
         IN  IF tokens + doc_tokens > budget
             THEN LET remaining_tokens == budget - tokens
                  IN  IF remaining_tokens > MIN_REMAINING_TOKENS
                      THEN BuildContext(docs, i + 1,
                               Append(parts,
                                   [index |-> i,
                                    text |-> truncate_text(doc_text,
                                                           remaining_tokens)]),
                               tokens + doc_tokens, budget)
                      ELSE [context_parts |-> parts, current_tokens |-> tokens]
             ELSE BuildContext(docs, i + 1,
                               Append(parts, [index |-> i, text |-> doc_text]),
                               tokens + doc_tokens, budget)

\* build_prompt(query, retrieved_docs, max_context_tokens)
BuildPrompt ==
    /\ pr_pc = "call"
    /\ LET r == BuildContext(pr_docs, 1, <<>>, 0, max_context_tokens)
       IN  /\ context_parts' = r.context_parts
           /\ current_tokens' = r.current_tokens
    /\ pr_pc' = "done"
    /\ UNCHANGED <<pr_docs, max_context_tokens>>

(***************************************************************************)
(* query                                                                   *)
(***************************************************************************)
NoResult == [answer |-> "none", sources |-> <<>>, returned |-> FALSE]
NoFailure == [step |-> "none", exc |-> "none"]

CannedAnswer == "I couldn't find any relevant information to answer your question."

\* faulty sources: what went into the prompt, a truncated text as truncated
FormatSources_AsInPrompt(docs) ==
    LET parts == BuildContext(docs, 1, <<>>, 0,
                              DEFAULT_MAX_CONTEXT_TOKENS).context_parts
    IN  [k \in 1..Len(parts) |->
            [text |-> parts[k].text, score |-> docs[k].score,
             metadata |-> docs[k].metadata]]

\* the sources of a result: text, score and metadata of each retrieved document
FormatSources(docs) ==
    [k \in 1..Len(docs) |->
        [text |-> docs[k].text, score |-> docs[k].score,
         metadata |-> docs[k].metadata]]

\* top_k or settings.TOP_K_RESULTS
EffectiveTopK(k) == OrDefault(k, TOP_K_RESULTS)

\* a faulty except clause: the failure is swallowed and the canned answer
\* returned
QueryOnException_Fallback(e) ==
    /\ q_pc' = "returned"
    /\ q_exc' = "none"
    /\ q_result' = [answer |-> CannedAnswer, sources |-> <<>>,
                    returned |-> TRUE]

\* the except clauses of retrieve and query: log the event and re-raise
QueryOnException(e) ==
    /\ q_pc' = "raised"
    /\ q_exc' = e
    /\ q_result' = NoResult

\* a faulty query: no test `if not retrieved_docs`, the generative call is
\* made on an empty context
QueryAfterRetrieve_NoShortCircuit(docs) ==
    /\ q_pc' = "llm"
    /\ q_result' = NoResult

\* after retrieve: the canned answer when nothing was retrieved, else the
\* prompt is built and the generative call is next
QueryAfterRetrieve(docs) ==
    IF docs = <<>>
    THEN /\ q_pc' = "returned"
         /\ q_result' = [answer |-> CannedAnswer, sources |-> <<>>,
                         returned |-> TRUE]
    ELSE /\ q_pc' = "llm"
         /\ q_result' = NoResult

\* query(question, top_k) is called
QueryCall(q, k) ==
    /\ q_pc = "idle"
    /\ question' = q
    /\ top_k' = k
    /\ q_pc' = "embed"
    /\ UNCHANGED <<retrieved_docs, q_result, q_exc, q_failed, llm_calls>>

\* retrieve: get_embedding(question) returns a vector
QueryEmbedReturns ==
    /\ q_pc = "embed"
    /\ question # ""
    /\ q_pc' = "search"
    /\ UNCHANGED <<question, top_k, retrieved_docs, q_result, q_exc, q_failed,
                   llm_calls>>

\* retrieve: get_embedding(question) raises e: ValueError for an empty
\* question, else what the provider call raised
QueryEmbedRaises(e) ==
    /\ q_pc = "embed"
    /\ IF question = "" THEN e = "ValueError" ELSE e # "ValueError"
    /\ q_failed' = [step |-> "embed", exc |-> e]
    /\ QueryOnException(e)
    /\ UNCHANGED <<question, top_k, retrieved_docs, llm_calls>>

\* retrieve: mongo_knn_search returns docs, at most top_k of them
QuerySearchReturns(docs) ==
    /\ q_pc = "search"
    /\ Len(docs) <= EffectiveTopK(top_k)
    /\ retrieved_docs' = docs
    /\ QueryAfterRetrieve(docs)
    /\ UNCHANGED <<question, top_k, q_exc, q_failed, llm_calls>>

\* retrieve: mongo_knn_search raises e
QuerySearchRaises(e) ==
    /\ q_pc = "search"
    /\ q_failed' = [step |-> "search", exc |-> e]
    /\ QueryOnException(e)
    /\ UNCHANGED <<question, top_k, retrieved_docs, llm_calls>>

\* call_llm(build_prompt(question, retrieved_docs)) returns an answer
QueryLlmReturns(answer) ==
    /\ q_pc = "llm"
    /\ llm_calls' = llm_calls + 1
    /\ q_result' = [answer |-> answer, sources |-> FormatSources(retrieved_docs),
                    returned |-> TRUE]
    /\ q_pc' = "returned"
    /\ UNCHANGED <<question, top_k, retrieved_docs, q_exc, q_failed>>

\* call_llm raises e
QueryLlmRaises(e) ==
    /\ q_pc = "llm"
    /\ llm_calls' = llm_calls + 1
    /\ q_failed' = [step |-> "llm", exc |-> e]
    /\ QueryOnException(e)
    /\ UNCHANGED <<question, top_k, retrieved_docs>>

(***************************************************************************)
(* The vector store and ingest_file, ingest_directory. The content of a    *)
(* file is represented by the chunks chunk_text(parse_file(f)) gives under *)
(* the settings: none for an empty or whitespace-only text.                *)
(***************************************************************************)
FilePaths == {"a.txt", "b.md"}

\* the order in which directory.glob finds the files
GlobOrder == <<"a.txt", "b.md">>

ChunkTexts == {"x", "y"}

Contents == UNION {[1..n -> ChunkTexts] : n \in 0..MaxFileChunks}

\* what get_embedding returns: vectors of dimension 1 and 2
Vectors == {<<1>>, <<1, 2>>}

\* the metadata argument: None, or keys of the caller's
Metadatas == {<<>>, [author |-> "ann", chunk_index |-> 99]}

IngestFailures == {"RetryError", "OperationFailure"}

\* a faulty id: the digest also covers something that changes from one
\* ingestion to the next
generate_chunk_id_PerCall(fp, index) == [md5 |-> <<fp, ":", index, in_calls>>]

\* hashlib.md5(f"{file_path}:{chunk_index}".encode()).hexdigest(): the digest
\* is represented by the text it is the digest of
generate_chunk_id(fp, index) == [md5 |-> <<fp, ":", index>>]

\* str(n) of an integer n
DigitChars == <<"0", "1", "2", "3", "4", "5", "6", "7", "8", "9">>

RECURSIVE DecimalDigits(_)
DecimalDigits(n) ==
    IF n < 10 THEN <<DigitChars[n + 1]>>
    ELSE DecimalDigits(n \div 10) \o <<DigitChars[(n % 10) + 1]>>

Decimal(n) == IF n < 0 THEN <<"-">> \o DecimalDigits(-n) ELSE DecimalDigits(n)

\* a faulty content: path and index put together with nothing in between
ChunkIdContent_NoSeparator(path, index) == path \o Decimal(index)

\* content = f"{file_path}:{chunk_index}", the path given by its characters
ChunkIdContent(path, index) == path \o <<":">> \o Decimal(index)

\* hashlib.md5(content.encode()).hexdigest(): the digest is represented by
\* the content it is the digest of (MD5 taken as free of collisions)
Md5HexDigest(content) == [md5 |-> content]

\* the next call of generate_chunk_id returns
GenerateChunkId ==
    /\ Len(id_out) < Len(id_in)
    /\ LET call == id_in[Len(id_out) + 1]
       IN  id_out' = Append(id_out,
                        Md5HexDigest(ChunkIdContent(call.file_path,
                                                    call.chunk_index)))
    /\ UNCHANGED id_in

\* a faulty overlay: on a collision the key of ingest_file wins
ChunkMetadata_BaseWins(fp, index, total, md) ==
    LET base == [source_file |-> fp, chunk_index |-> index,
                 total_chunks |-> total]
    IN  [k \in DOMAIN base \cup DOMAIN md |->
            IF k \in DOMAIN base THEN base[k] ELSE md[k]]

\* {"source_file": ..., "chunk_index": ..., "total_chunks": ..., **(metadata or {})}
ChunkMetadata(fp, index, total, md) ==
    LET base == [source_file |-> fp, chunk_index |-> index,
                 total_chunks |-> total]
    IN  [k \in DOMAIN base \cup DOMAIN md |->
            IF k \in DOMAIN md THEN md[k] ELSE base[k]]

\* a faulty write: an update that merges into the record it finds, so
\* metadata keys of the old record that the new one lacks stay
UpsertDocument_Merge(st, doc_id, txt, emb, md) ==
    [k \in DOMAIN st \cup {doc_id} |->
        IF k = doc_id
        THEN [text |-> txt, embedding |-> emb,
              metadata |-> IF doc_id \in DOMAIN st
                           THEN [m \in DOMAIN st[doc_id].metadata \cup DOMAIN md |->
                                    IF m \in DOMAIN md THEN md[m]
                                    ELSE st[doc_id].metadata[m]]
                           ELSE md]
        ELSE st[k]]

\* a faulty write that is not one atomic replacement: the text of a record
\* that is found stays, the other fields are written
UpsertDocument_KeepsText(st, doc_id, txt, emb, md) ==
    [k \in DOMAIN st \cup {doc_id} |->
        IF k = doc_id
        THEN [text |-> IF doc_id \in DOMAIN st THEN st[doc_id].text ELSE txt,
              embedding |-> emb, metadata |-> md]
        ELSE st[k]]

\* collection.replace_one({"_id": doc_id}, document, upsert=True); the
\* created_at time stamp of the document is left out
UpsertDocument(st, doc_id, txt, emb, md) ==
    [k \in DOMAIN st \cup {doc_id} |->
        IF k = doc_id
        THEN [text |-> txt, embedding |-> emb, metadata |-> md]
        ELSE st[k]]

\* the variables of ingestion other than the collection
ingestLocals == <<fs, file_path, metadata, in_chunks, in_i, embedding,
                  chunk_ids, in_exc, in_caller, in_pc, d_files, d_i, results,
                  d_pc, in_embedded, in_upserted, in_failed, ids_at_call,
                  hist, d_log, in_calls, edited>>

MaxUpsertCalls == 3

\* upsert_document(doc_id, text, embedding, metadata) is called
UpsertCall(doc_id, txt, emb, md) ==
    /\ up_pc \in {"idle", "returned", "raised"}
    /\ up_calls < MaxUpsertCalls
    /\ up_calls' = up_calls + 1
    /\ up_args' = [doc_id |-> doc_id, text |-> txt, embedding |-> emb,
                   metadata |-> md]
    /\ up_before' = store
    /\ up_pc' = "replace"
    /\ UNCHANGED <<store, ingestLocals>>

\* replace_one succeeds: the document is written and doc_id returned
UpsertReturns ==
    /\ up_pc = "replace"
    /\ store' = UpsertDocument(store, up_args.doc_id, up_args.text,
                               up_args.embedding, up_args.metadata)
    /\ up_pc' = "returned"
    /\ UNCHANGED <<up_args, up_before, up_calls, ingestLocals>>

\* replace_one raises: logged and re-raised, nothing written
UpsertRaises ==
    /\ up_pc = "replace"
    /\ up_pc' = "raised"
    /\ UNCHANGED <<up_args, up_before, up_calls, store, ingestLocals>>

Writers == {"w1", "w2"}

\* writer w has built its document and calls replace_one
WriterBuilds(w) ==
    /\ cw_pc[w] = "call"
    /\ cw_pc' = [cw_pc EXCEPT ![w] = "replace"]
    /\ UNCHANGED <<cw_args, cw_order, store, ingestLocals>>

\* the server applies the replace_one of writer w, one atomic write of the
\* whole document
WriterReplaced(w) ==
    /\ cw_pc[w] = "replace"
    /\ store' = UpsertDocument(store, cw_args[w].doc_id, cw_args[w].text,
                               cw_args[w].embedding, cw_args[w].metadata)
    /\ cw_order' = Append(cw_order, w)
    /\ cw_pc' = [cw_pc EXCEPT ![w] = "returned"]
    /\ UNCHANGED <<cw_args, ingestLocals>>

\* the replace_one of writer w fails: nothing written, the exception re-raised
WriterRaises(w) ==
    /\ cw_pc[w] = "replace"
    /\ cw_pc' = [cw_pc EXCEPT ![w] = "raised"]
    /\ UNCHANGED <<cw_args, cw_order, store, ingestLocals>>

NoIngestFailure == [at |-> -1, exc |-> "none"]
NoHistory == [ingested |-> FALSE, content |-> <<>>, ids |-> <<>>]

\* ingest_file(fp, md) begins: the text of the file is parsed and chunked;
\* an empty text or no chunks returns [] at once
IngestBegin(fp, md, caller) ==
    /\ in_calls < MaxIngestCalls
    /\ in_calls' = in_calls + 1
    /\ file_path' = fp
    /\ metadata' = md
    /\ in_caller' = caller
    /\ in_chunks' = fs[fp]
    /\ in_i' = 0
    /\ chunk_ids' = <<>>
    /\ embedding' = <<>>
    /\ in_exc' = "none"
    /\ in_embedded' = <<>>
    /\ in_upserted' = <<>>
    /\ in_failed' = NoIngestFailure
    /\ ids_at_call' = DOMAIN store
    /\ in_pc' = IF fs[fp] = <<>> THEN "returned" ELSE "embed"
    /\ edited' = FALSE
    /\ UNCHANGED <<fs, store, hist>>

\* ingest_file(fp, md) begins and parse_file raises e
IngestBeginRaises(fp, md, caller, e) ==
    /\ in_calls < MaxIngestCalls
    /\ in_calls' = in_calls + 1
    /\ file_path' = fp
    /\ metadata' = md
    /\ in_caller' = caller
    /\ in_chunks' = <<>>
    /\ in_i' = 0
    /\ chunk_ids' = <<>>
    /\ embedding' = <<>>
    /\ in_exc' = e
    /\ in_embedded' = <<>>
    /\ in_upserted' = <<>>
    /\ in_failed' = NoIngestFailure
    /\ ids_at_call' = DOMAIN store
    /\ in_pc' = "raised"
    /\ edited' = FALSE
    /\ UNCHANGED <<fs, store, hist>>

\* ingest_file(fp, md) begins on a file whose text, as parse_file returns it,
\* is raw_text: a text of whitespace only returns [] at once, any other text
\* goes to chunk_text(text), called with the defaults
IngestParsed(fp, md) ==
    /\ in_pc = "idle" /\ d_pc = "idle"
    /\ ck_pc = "call"
    /\ in_calls < MaxIngestCalls
    /\ in_calls' = in_calls + 1
    /\ file_path' = fp
    /\ metadata' = md
    /\ in_caller' = "user"
    /\ in_chunks' = <<>>
    /\ in_i' = 0
    /\ chunk_ids' = <<>>
    /\ embedding' = <<>>
    /\ in_exc' = "none"
    /\ in_embedded' = <<>>
    /\ in_upserted' = <<>>
    /\ in_failed' = NoIngestFailure
    /\ ids_at_call' = DOMAIN store
    /\ in_pc' = IF Strip(raw_text) = <<>> THEN "returned" ELSE "chunk"
    /\ arg_max_chunk_size' = 0
    /\ arg_overlap' = 0
    /\ edited' = FALSE
    /\ UNCHANGED <<fs, store, hist, d_files, d_i, results, d_pc, d_log>>
    /\ UNCHANGED <<raw_text, text, max_chunk_size, overlap, start, end, chunks,
                   ck_pc>>

\* chunk_text returned to ingest_file: no chunks returns [], else the loop
\* over the chunks begins
IngestChunked ==
    /\ in_pc = "chunk"
    /\ ck_pc = "done"
    /\ in_chunks' = chunks
    /\ in_pc' = IF chunks = <<>> THEN "returned" ELSE "embed"
    /\ UNCHANGED <<fs, store, file_path, metadata, in_i, embedding, chunk_ids,
                   in_exc, in_caller, d_files, d_i, results, d_pc, in_embedded,
                   in_upserted, in_failed, ids_at_call, hist, d_log, in_calls,
                   edited>>

\* a faulty except clause: the failed chunk is skipped and the loop goes on
IngestOnException_Continue(e) ==
    /\ in_pc' = IF in_i + 1 < Len(in_chunks) THEN "embed" ELSE "returned"
    /\ in_i' = in_i + 1
    /\ UNCHANGED <<in_exc, chunk_ids>>

\* the except clause of ingest_file: log the event and re-raise
IngestOnException(e) ==
    /\ in_pc' = "raised"
    /\ in_exc' = e
    /\ UNCHANGED <<in_i, chunk_ids>>

\* the frame of ingest_file is gone once its caller has its result
IngestFrameDropped ==
    /\ file_path' = "none"
    /\ in_chunks' = <<>>
    /\ in_i' = 0
    /\ embedding' = <<>>
    /\ chunk_ids' = <<>>
    /\ in_exc' = "none"
    /\ in_caller' = "none"
    /\ in_pc' = "idle"
    /\ in_embedded' = <<>>
    /\ in_upserted' = <<>>
    /\ in_failed' = NoIngestFailure
    /\ ids_at_call' = {}

\* the user calls ingest_file
IngestFileCall(fp, md) ==
    /\ in_pc = "idle" /\ d_pc = "idle"
    /\ IngestBegin(fp, md, "user")
    /\ UNCHANGED <<d_files, d_i, results, d_pc, d_log>>

IngestFileCallRaises(fp, md, e) ==
    /\ in_pc = "idle" /\ d_pc = "idle"
    /\ IngestBeginRaises(fp, md, "user", e)
    /\ UNCHANGED <<d_files, d_i, results, d_pc, d_log>>

\* get_embedding(chunk) returns v
IngestEmbedReturns(v) ==
    /\ in_pc = "embed"
    /\ embedding' = v
    /\ in_embedded' = Append(in_embedded, in_i)
    /\ in_pc' = "upsert"
    /\ UNCHANGED <<fs, store, file_path, metadata, in_chunks, in_i, chunk_ids,
                   in_exc, in_caller, d_files, d_i, results, d_pc, in_upserted,
                   in_failed, ids_at_call, hist, d_log, in_calls, edited>>

\* get_embedding(chunk) raises e
IngestEmbedRaises(e) ==
    /\ in_pc = "embed"
    /\ in_embedded' = Append(in_embedded, in_i)
    /\ in_failed' = [at |-> in_i, exc |-> e]
    /\ IngestOnException(e)
    /\ UNCHANGED <<fs, store, file_path, metadata, in_chunks, embedding,
                   in_caller, d_files, d_i, results, d_pc, in_upserted,
                   ids_at_call, hist, d_log, in_calls, edited>>

\* upsert_document returns: the id joins chunk_ids, the loop goes on to the
\* next chunk or ingest_file returns chunk_ids
IngestUpsertReturns ==
    /\ in_pc = "upsert"
    /\ LET chunk_id == generate_chunk_id(file_path, in_i)
       IN  /\ store' = UpsertDocument(store, chunk_id, in_chunks[in_i + 1],
                           embedding,
                           ChunkMetadata(file_path, in_i, Len(in_chunks),
                                         metadata))
           /\ chunk_ids' = Append(chunk_ids, chunk_id)
    /\ in_upserted' = Append(in_upserted, in_i)
    /\ in_i' = in_i + 1
    /\ in_pc' = IF in_i + 1 < Len(in_chunks) THEN "embed" ELSE "returned"
    /\ UNCHANGED <<fs, file_path, metadata, in_chunks, embedding, in_exc,
                   in_caller, d_files, d_i, results, d_pc, in_embedded,
                   in_failed, ids_at_call, hist, d_log, in_calls, edited>>

\* upsert_document raises e: replace_one failed and wrote nothing
IngestUpsertRaises(e) ==
    /\ in_pc = "upsert"
    /\ in_failed' = [at |-> in_i, exc |-> e]
    /\ IngestOnException(e)
    /\ UNCHANGED <<fs, store, file_path, metadata, in_chunks, embedding,
                   in_caller, d_files, d_i, results, d_pc, in_embedded,
                   in_upserted, ids_at_call, hist, d_log, in_calls, edited>>

\* what a completed ingest_file leaves in the history of its file
Completed == [ingested |-> TRUE, content |-> in_chunks, ids |-> chunk_ids]

HistAfter ==
    IF in_pc = "returned"
    THEN [hist EXCEPT ![file_path] = Completed]
    ELSE hist

\* the user's call of ingest_file is over
IngestFileDone ==
    /\ in_pc \in {"returned", "raised"}
    /\ in_caller = "user"
    /\ hist' = HistAfter
    /\ IngestFrameDropped
    /\ metadata' = <<>>
    /\ UNCHANGED <<fs, store, d_files, d_i, results, d_pc, d_log, in_calls,
                   edited>>

\* a file is rewritten between two ingestions (rewrites in a row count as one)
EditFile(fp, content) ==
    /\ in_pc = "idle" /\ d_pc = "idle"
    /\ in_calls < MaxIngestCalls
    /\ in_calls > 0
    /\ ~edited
    /\ fs[fp] # content
    /\ fs' = [fs EXCEPT ![fp] = content]
    /\ edited' = TRUE
    /\ UNCHANGED <<store, file_path, metadata, in_chunks, in_i, embedding,
                   chunk_ids, in_exc, in_caller, in_pc, d_files, d_i, results,
                   d_pc, in_embedded, in_upserted, in_failed, ids_at_call,
                   hist, d_log, in_calls>>

\* ingest_directory(directory_path, md) is called and finds the files
DirectoryCall(md) ==
    /\ in_pc = "idle" /\ d_pc = "idle"
    /\ in_calls < MaxIngestCalls
    /\ d_files' = GlobOrder
    /\ d_i' = 0
    /\ results' = <<>>
    /\ d_log' = <<>>
    /\ metadata' = md
    /\ d_pc' = "loop"
    /\ UNCHANGED <<fs, store, file_path, in_chunks, in_i, embedding, chunk_ids,
                   in_exc, in_caller, in_pc, in_embedded, in_upserted,
                   in_failed, ids_at_call, hist, in_calls, edited>>

\* ingest_directory is called on a directory that does not exist
DirectoryCallRaises ==
    /\ in_pc = "idle" /\ d_pc = "idle"
    /\ d_files' = <<>>
    /\ d_i' = 0
    /\ results' = <<>>
    /\ d_log' = <<>>
    /\ d_pc' = "raised"
    /\ UNCHANGED <<fs, store, file_path, metadata, in_chunks, in_i, embedding,
                   chunk_ids, in_exc, in_caller, in_pc, in_embedded,
                   in_upserted, in_failed, ids_at_call, hist, in_calls, edited>>

\* the loop of ingest_directory calls ingest_file on the next file
DirectoryIngestNext ==
    /\ d_pc = "loop" /\ in_pc = "idle"
    /\ d_i < Len(d_files)
    /\ IngestBegin(d_files[d_i + 1], metadata, "dir")
    /\ UNCHANGED <<d_files, d_i, results, d_pc, d_log>>

DirectoryIngestNextRaises(e) ==
    /\ d_pc = "loop" /\ in_pc = "idle"
    /\ d_i < Len(d_files)
    /\ IngestBeginRaises(d_files[d_i + 1], metadata, "dir", e)
    /\ UNCHANGED <<d_files, d_i, results, d_pc, d_log>>

\* a faulty entry: the ids collected before the failure are kept
DirectoryResultFor_Partial(pc, ids) == ids

\* results[str(file_path)]: the chunk ids ingest_file returned, or [] in the
\* except clause
DirectoryResultFor(pc, ids) == IF pc = "returned" THEN ids ELSE <<>>

\* ingest_file came back to the loop of ingest_directory, by return or by
\* an exception: the entry of the file is set and the loop goes on
DirectoryCollect ==
    /\ d_pc = "loop"
    /\ in_pc \in {"returned", "raised"}
    /\ in_caller = "dir"
    /\ results' = [f \in DOMAIN results \cup {file_path} |->
                      IF f = file_path
                      THEN DirectoryResultFor(in_pc, chunk_ids)
                      ELSE results[f]]
    /\ d_log' = Append(d_log, [file |-> file_path, raised |-> in_pc = "raised",
                               ids |-> chunk_ids])
    /\ d_i' = d_i + 1
    /\ hist' = HistAfter
    /\ IngestFrameDropped
    /\ UNCHANGED <<fs, store, metadata, d_files, d_pc, in_calls, edited>>

\* the loop of ingest_directory is over: return results
DirectoryReturn ==
    /\ d_pc = "loop" /\ in_pc = "idle"
    /\ d_i = Len(d_files)
    /\ d_pc' = "returned"
    /\ UNCHANGED <<fs, store, file_path, metadata, in_chunks, in_i, embedding,
                   chunk_ids, in_exc, in_caller, in_pc, d_files, d_i, results,
                   in_embedded, in_upserted, in_failed, ids_at_call, hist,
                   d_log, in_calls, edited>>

\* the call of ingest_directory is over
DirectoryDone ==
    /\ d_pc \in {"returned", "raised"}
    /\ d_pc' = "idle"
    /\ d_files' = <<>>
    /\ d_i' = 0
    /\ results' = <<>>
    /\ d_log' = <<>>
    /\ metadata' = <<>>
    /\ UNCHANGED <<fs, store, file_path, in_chunks, in_i, embedding, chunk_ids,
                   in_exc, in_caller, in_pc, in_embedded, in_upserted,
                   in_failed, ids_at_call, hist, in_calls, edited>>

(***************************************************************************)
(* The specifications                                                      *)
(***************************************************************************)
IdleChunkId ==
    /\ id_in = <<>>
    /\ id_out = <<>>

IdleEmbed ==
    /\ emb_text = <<>>
    /\ emb_pc = "idle"
    /\ emb_log = <<>>
    /\ emb_result = "none"
    /\ emb_exc = "none"

IdleBatch ==
    /\ bt_texts = <<>>
    /\ batch_size = 0
    /\ bt_i = 0
    /\ embeddings = <<>>
    /\ bt_requests = <<>>
    /\ bt_pc = "idle"
    /\ bt_log = <<>>
    /\ bt_result = <<>>
    /\ bt_exc = "none"

IdleUpsert ==
    /\ up_args = <<>>
    /\ up_before = <<>>
    /\ up_pc = "idle"
    /\ up_calls = 0

IdleSearch ==
    /\ kn_collection = <<>>
    /\ kn_top_k = 0
    /\ kn_filter = <<>>
    /\ kn_pipeline = <<>>
    /\ kn_results = <<>>
    /\ kn_exc = "none"
    /\ kn_pc = "idle"

IdleWriters ==
    /\ cw_args = <<>>
    /\ cw_pc = <<>>
    /\ cw_order = <<>>

IdleChunk ==
    /\ raw_text = <<>>
    /\ arg_max_chunk_size = 0
    /\ arg_overlap = 0
    /\ text = <<>>
    /\ max_chunk_size = 0
    /\ overlap = 0
    /\ start = 0
    /\ end = 0
    /\ chunks = <<>>
    /\ ck_pc = "idle"

IdleRetry ==
    /\ rt_fn = "none"
    /\ attempt_number = 0
    /\ rt_calls = 0
    /\ rt_errors = <<>>
    /\ rt_waits = <<>>
    /\ rt_outcome = "none"
    /\ rt_pc = "idle"

IdlePrompt ==
    /\ pr_docs = <<>>
    /\ max_context_tokens = 0
    /\ context_parts = <<>>
    /\ current_tokens = 0
    /\ pr_pc = "idle"

IdleQuery ==
    /\ question = ""
    /\ top_k = 0
    /\ retrieved_docs = <<>>
    /\ q_result = NoResult
    /\ q_exc = "none"
    /\ q_failed = NoFailure
    /\ llm_calls = 0
    /\ q_pc = "idle"

\* no ingestion runs; the store is empty and no file was ingested yet
IdleIngestWith(files) ==
    /\ fs = files
    /\ store = <<>>
    /\ file_path = "none"
    /\ metadata = <<>>
    /\ in_chunks = <<>>
    /\ in_i = 0
    /\ embedding = <<>>
    /\ chunk_ids = <<>>
    /\ in_exc = "none"
    /\ in_caller = "none"
    /\ in_pc = "idle"
    /\ d_files = <<>>
    /\ d_i = 0
    /\ results = <<>>
    /\ d_pc = "idle"
    /\ in_embedded = <<>>
    /\ in_upserted = <<>>
    /\ in_failed = NoIngestFailure
    /\ ids_at_call = {}
    /\ hist = [f \in FilePaths |-> NoHistory]
    /\ d_log = <<>>
    /\ in_calls = 0
    /\ edited = FALSE

IdleIngest == IdleIngestWith([f \in FilePaths |-> <<>>])

\* chunk_text on every raw text and every pair of arguments of the bounds
RawTexts == UNION {[1..n -> Alphabet] : n \in 0..MaxTextLen}

InitChunk ==
    /\ raw_text \in RawTexts
    /\ arg_max_chunk_size \in 0..MaxWindow
    /\ arg_overlap \in 0..MaxOverlapArg
    /\ text = <<>>
    /\ max_chunk_size = 0
    /\ overlap = 0
    /\ start = 0
    /\ end = 0
    /\ chunks = <<>>
    /\ ck_pc = "call"
    /\ IdleRetry /\ IdlePrompt /\ IdleQuery /\ IdleIngest /\ IdleChunkId /\ IdleEmbed /\ IdleBatch /\ IdleUpsert /\ IdleSearch /\ IdleWriters

NextChunk ==
    \/ ChunkCall /\ UNCHANGED <<retryVars, promptVars, queryVars, ingestVars,
                      chunkIdVars,
                      embedVars,
                      batchVars,
                      upsertVars,
                      searchVars,
                      writerVars>>
    \/ ChunkStep /\ UNCHANGED <<retryVars, promptVars, queryVars, ingestVars,
                      chunkIdVars,
                      embedVars,
                      batchVars,
                      upsertVars,
                      searchVars,
                      writerVars>>
    \/ ChunkReturn /\ UNCHANGED <<retryVars, promptVars, queryVars, ingestVars,
                      chunkIdVars,
                      embedVars,
                      batchVars,
                      upsertVars,
                      searchVars,
                      writerVars>>

SpecChunk == InitChunk /\ [][NextChunk]_vars

\* one provider call, its remote call failing or answering at each attempt
InitRetry == IdleRetry /\ IdleChunk /\ IdlePrompt /\ IdleQuery /\ IdleIngest /\ IdleChunkId /\ IdleEmbed /\ IdleBatch /\ IdleUpsert /\ IdleSearch /\ IdleWriters

NextRetry ==
    \/ (\E fn \in ProviderFunctions : RetryCall(fn))
          /\ UNCHANGED <<chunkVars, promptVars, queryVars, ingestVars,
                      chunkIdVars,
                      embedVars,
                      batchVars,
                      upsertVars,
                      searchVars,
                      writerVars>>
    \/ AttemptReturns
          /\ UNCHANGED <<chunkVars, promptVars, queryVars, ingestVars,
                      chunkIdVars,
                      embedVars,
                      batchVars,
                      upsertVars,
                      searchVars,
                      writerVars>>
    \/ (\E e \in ExceptionTypes : AttemptRaises(e))
          /\ UNCHANGED <<chunkVars, promptVars, queryVars, ingestVars,
                      chunkIdVars,
                      embedVars,
                      batchVars,
                      upsertVars,
                      searchVars,
                      writerVars>>

SpecRetry == InitRetry /\ [][NextRetry]_vars

\* the token counts of the document texts handed to build_prompt, around
\* the budgets and around the minimum that is worth a truncation
TokenChoices == {0, 1, 60, 101, 150}

TextLengths ==
    {CHARS_PER_TOKEN * t + r : t \in TokenChoices, r \in 0..MaxRemainder}

Budgets == {0, 100, 101, 160, 202, DEFAULT_MAX_CONTEXT_TOKENS}

PromptDocs == {[text |-> n, score |-> 90, metadata |-> <<>>] : n \in TextLengths}

\* build_prompt on every sequence of documents and every budget of the bounds
InitPrompt ==
    /\ pr_docs \in UNION {[1..n -> PromptDocs] : n \in 0..MaxDocs}
    /\ max_context_tokens \in Budgets
    /\ context_parts = <<>>
    /\ current_tokens = 0
    /\ pr_pc = "call"
    /\ IdleChunk /\ IdleRetry /\ IdleQuery /\ IdleIngest /\ IdleChunkId /\ IdleEmbed /\ IdleBatch /\ IdleUpsert /\ IdleSearch /\ IdleWriters

NextPrompt ==
    BuildPrompt /\ UNCHANGED <<chunkVars, retryVars, queryVars, ingestVars,
                      chunkIdVars,
                      embedVars,
                      batchVars,
                      upsertVars,
                      searchVars,
                      writerVars>>

SpecPrompt == InitPrompt /\ [][NextPrompt]_vars

\* the documents a search returns, and what the steps of query can raise
Questions == {"", "what is X?"}
TopKs == {0, 1, 2}
QueryDocs ==
    {[text |-> 40, score |-> 95, metadata |-> [source |-> "a.txt"]],
     [text |-> 13000, score |-> 85, metadata |-> [source |-> "b.md"]]}
SearchResults == UNION {[1..n -> QueryDocs] : n \in 0..MaxDocs}
EmbedFailures == {"ValueError", "RetryError"}
SearchFailures == {"OperationFailure", "ServerSelectionTimeoutError"}
LlmFailures == {"RetryError", "TypeError"}
Answers == {"answer"}

InitQuery == IdleQuery /\ IdleChunk /\ IdleRetry /\ IdlePrompt /\ IdleIngest /\ IdleChunkId /\ IdleEmbed /\ IdleBatch /\ IdleUpsert /\ IdleSearch /\ IdleWriters

NextQuery ==
    \/ (\E q \in Questions, k \in TopKs : QueryCall(q, k))
          /\ UNCHANGED <<chunkVars, retryVars, promptVars, ingestVars,
                      chunkIdVars,
                      embedVars,
                      batchVars,
                      upsertVars,
                      searchVars,
                      writerVars>>
    \/ QueryEmbedReturns
          /\ UNCHANGED <<chunkVars, retryVars, promptVars, ingestVars,
                      chunkIdVars,
                      embedVars,
                      batchVars,
                      upsertVars,
                      searchVars,
                      writerVars>>
    \/ (\E e \in EmbedFailures : QueryEmbedRaises(e))
          /\ UNCHANGED <<chunkVars, retryVars, promptVars, ingestVars,
                      chunkIdVars,
                      embedVars,
                      batchVars,
                      upsertVars,
                      searchVars,
                      writerVars>>
    \/ (\E docs \in SearchResults : QuerySearchReturns(docs))
          /\ UNCHANGED <<chunkVars, retryVars, promptVars, ingestVars,
                      chunkIdVars,
                      embedVars,
                      batchVars,
                      upsertVars,
                      searchVars,
                      writerVars>>
    \/ (\E e \in SearchFailures : QuerySearchRaises(e))
          /\ UNCHANGED <<chunkVars, retryVars, promptVars, ingestVars,
                      chunkIdVars,
                      embedVars,
                      batchVars,
                      upsertVars,
                      searchVars,
                      writerVars>>
    \/ (\E a \in Answers : QueryLlmReturns(a))
          /\ UNCHANGED <<chunkVars, retryVars, promptVars, ingestVars,
                      chunkIdVars,
                      embedVars,
                      batchVars,
                      upsertVars,
                      searchVars,
                      writerVars>>
    \/ (\E e \in LlmFailures : QueryLlmRaises(e))
          /\ UNCHANGED <<chunkVars, retryVars, promptVars, ingestVars,
                      chunkIdVars,
                      embedVars,
                      batchVars,
                      upsertVars,
                      searchVars,
                      writerVars>>

SpecQuery == InitQuery /\ [][NextQuery]_vars

\* ingestions of the files, one after the other, the files rewritten in
\* between, each remote call answering or failing
InitIngest ==
    /\ \E files \in [FilePaths -> Contents] : IdleIngestWith(files)
    /\ IdleChunk /\ IdleRetry /\ IdlePrompt /\ IdleQuery /\ IdleChunkId /\ IdleEmbed /\ IdleBatch /\ IdleUpsert /\ IdleSearch /\ IdleWriters

NextIngest ==
    \/ (\E fp \in FilePaths, md \in Metadatas : IngestFileCall(fp, md))
          /\ UNCHANGED <<chunkVars, retryVars, promptVars, queryVars,
                      chunkIdVars,
                      embedVars,
                      batchVars,
                      upsertVars,
                      searchVars,
                      writerVars>>
    \/ (\E fp \in FilePaths, md \in Metadatas :
            IngestFileCallRaises(fp, md, "FileNotFoundError"))
          /\ UNCHANGED <<chunkVars, retryVars, promptVars, queryVars,
                      chunkIdVars,
                      embedVars,
                      batchVars,
                      upsertVars,
                      searchVars,
                      writerVars>>
    \/ (\E v \in Vectors : IngestEmbedReturns(v))
          /\ UNCHANGED <<chunkVars, retryVars, promptVars, queryVars,
                      chunkIdVars,
                      embedVars,
                      batchVars,
                      upsertVars,
                      searchVars,
                      writerVars>>
    \/ (\E e \in IngestFailures : IngestEmbedRaises(e))
          /\ UNCHANGED <<chunkVars, retryVars, promptVars, queryVars,
                      chunkIdVars,
                      embedVars,
                      batchVars,
                      upsertVars,
                      searchVars,
                      writerVars>>
    \/ IngestUpsertReturns
          /\ UNCHANGED <<chunkVars, retryVars, promptVars, queryVars,
                      chunkIdVars,
                      embedVars,
                      batchVars,
                      upsertVars,
                      searchVars,
                      writerVars>>
    \/ (\E e \in IngestFailures : IngestUpsertRaises(e))
          /\ UNCHANGED <<chunkVars, retryVars, promptVars, queryVars,
                      chunkIdVars,
                      embedVars,
                      batchVars,
                      upsertVars,
                      searchVars,
                      writerVars>>
    \/ IngestFileDone
          /\ UNCHANGED <<chunkVars, retryVars, promptVars, queryVars,
                      chunkIdVars,
                      embedVars,
                      batchVars,
                      upsertVars,
                      searchVars,
                      writerVars>>
    \/ (\E fp \in FilePaths, c \in Contents : EditFile(fp, c))
          /\ UNCHANGED <<chunkVars, retryVars, promptVars, queryVars,
                      chunkIdVars,
                      embedVars,
                      batchVars,
                      upsertVars,
                      searchVars,
                      writerVars>>
    \/ (\E md \in Metadatas : DirectoryCall(md))
          /\ UNCHANGED <<chunkVars, retryVars, promptVars, queryVars,
                      chunkIdVars,
                      embedVars,
                      batchVars,
                      upsertVars,
                      searchVars,
                      writerVars>>
    \/ DirectoryCallRaises
          /\ UNCHANGED <<chunkVars, retryVars, promptVars, queryVars,
                      chunkIdVars,
                      embedVars,
                      batchVars,
                      upsertVars,
                      searchVars,
                      writerVars>>
    \/ DirectoryIngestNext
          /\ UNCHANGED <<chunkVars, retryVars, promptVars, queryVars,
                      chunkIdVars,
                      embedVars,
                      batchVars,
                      upsertVars,
                      searchVars,
                      writerVars>>
    \/ DirectoryIngestNextRaises("PdfReadError")
          /\ UNCHANGED <<chunkVars, retryVars, promptVars, queryVars,
                      chunkIdVars,
                      embedVars,
                      batchVars,
                      upsertVars,
                      searchVars,
                      writerVars>>
    \/ DirectoryCollect
          /\ UNCHANGED <<chunkVars, retryVars, promptVars, queryVars,
                      chunkIdVars,
                      embedVars,
                      batchVars,
                      upsertVars,
                      searchVars,
                      writerVars>>
    \/ DirectoryReturn
          /\ UNCHANGED <<chunkVars, retryVars, promptVars, queryVars,
                      chunkIdVars,
                      embedVars,
                      batchVars,
                      upsertVars,
                      searchVars,
                      writerVars>>
    \/ DirectoryDone
          /\ UNCHANGED <<chunkVars, retryVars, promptVars, queryVars,
                      chunkIdVars,
                      embedVars,
                      batchVars,
                      upsertVars,
                      searchVars,
                      writerVars>>

SpecIngest == InitIngest /\ [][NextIngest]_vars

\* chunk_text called by the user on any text and arguments, or by
\* ingest_file on the text of a file; the texts of the bounds are shorter
\* than MAX_CHUNK_SIZE, so that the call from ingest_file never enters the
\* loop
MaxEmbedTextLen == 3

EmbedTexts == UNION {[1..n -> Alphabet] : n \in 0..MaxEmbedTextLen}

InitEmbed ==
    /\ emb_text \in EmbedTexts
    /\ emb_pc = "call"
    /\ emb_log = <<>>
    /\ emb_result = "none"
    /\ emb_exc = "none"
    /\ IdleRetry /\ IdleChunk /\ IdlePrompt /\ IdleQuery /\ IdleIngest /\ IdleChunkId /\ IdleBatch /\ IdleUpsert /\ IdleSearch /\ IdleWriters

NextEmbed ==
    \/ GetEmbeddingCall
          /\ UNCHANGED <<chunkVars, promptVars, queryVars, ingestVars,
                         chunkIdVars,
                      batchVars,
                      upsertVars,
                      searchVars,
                      writerVars>>
    \/ emb_pc = "api" /\ AttemptReturns
          /\ UNCHANGED <<chunkVars, promptVars, queryVars, ingestVars,
                         chunkIdVars, embedVars,
                      batchVars,
                      upsertVars,
                      searchVars,
                      writerVars>>
    \/ emb_pc = "api" /\ (\E e \in ExceptionTypes : AttemptRaises(e))
          /\ UNCHANGED <<chunkVars, promptVars, queryVars, ingestVars,
                         chunkIdVars, embedVars,
                      batchVars,
                      upsertVars,
                      searchVars,
                      writerVars>>
    \/ GetEmbeddingReturns
          /\ UNCHANGED <<chunkVars, promptVars, queryVars, ingestVars,
                         chunkIdVars,
                      batchVars,
                      upsertVars,
                      searchVars,
                      writerVars>>
    \/ GetEmbeddingRaises
          /\ UNCHANGED <<chunkVars, promptVars, queryVars, ingestVars,
                         chunkIdVars,
                      batchVars,
                      upsertVars,
                      searchVars,
                      writerVars>>

SpecEmbed == InitEmbed /\ [][NextEmbed]_vars

MaxBatchTexts == 4
MaxBatchSize == 3

TextIds == {"t1", "t2", "t3"}

BatchInputs == UNION {[1..n -> TextIds] : n \in 0..MaxBatchTexts}

InitBatch ==
    /\ bt_texts \in BatchInputs
    /\ batch_size \in 0..MaxBatchSize
    /\ bt_i = 0
    /\ embeddings = <<>>
    /\ bt_requests = <<>>
    /\ bt_pc = "call"
    /\ bt_log = <<>>
    /\ bt_result = <<>>
    /\ bt_exc = "none"
    /\ IdleRetry /\ IdleChunk /\ IdlePrompt /\ IdleQuery /\ IdleIngest /\ IdleChunkId /\ IdleEmbed /\ IdleUpsert /\ IdleSearch /\ IdleWriters

NextBatch ==
    \/ BatchCall
          /\ UNCHANGED <<chunkVars, retryVars, promptVars, queryVars,
                         ingestVars, chunkIdVars, embedVars,
                      upsertVars,
                      searchVars,
                      writerVars>>
    \/ BatchRequestReturns
          /\ UNCHANGED <<chunkVars, retryVars, promptVars, queryVars,
                         ingestVars, chunkIdVars, embedVars,
                      upsertVars,
                      searchVars,
                      writerVars>>
    \/ (\E e \in BatchExceptionTypes : BatchRequestRaises(e))
          /\ UNCHANGED <<chunkVars, retryVars, promptVars, queryVars,
                         ingestVars, chunkIdVars, embedVars,
                      upsertVars,
                      searchVars,
                      writerVars>>
    \/ BatchReturn
          /\ UNCHANGED <<chunkVars, retryVars, promptVars, queryVars,
                         ingestVars, chunkIdVars, embedVars,
                      upsertVars,
                      searchVars,
                      writerVars>>

SpecBatch == InitBatch /\ [][NextBatch]_vars

DocIds == {"d1", "d2"}
DocTexts == {"x", "y"}

\* the metadata argument: None or {}, or a dictionary over some keys
StoreMetadatas ==
    {<<>>, [author |-> "u"], [author |-> "v"], [lang |-> "u"],
     [author |-> "u", lang |-> "v"]}

InitUpsert ==
    /\ up_args = <<>>
    /\ up_before = <<>>
    /\ up_pc = "idle"
    /\ up_calls = 0
    /\ IdleRetry /\ IdleChunk /\ IdlePrompt /\ IdleQuery /\ IdleIngest /\ IdleChunkId /\ IdleEmbed /\ IdleBatch /\ IdleSearch /\ IdleWriters

NextUpsert ==
    \/ (\E doc_id \in DocIds, txt \in DocTexts, emb \in Vectors,
           md \in StoreMetadatas : UpsertCall(doc_id, txt, emb, md))
          /\ UNCHANGED <<chunkVars, retryVars, promptVars, queryVars,
                         chunkIdVars, embedVars, batchVars,
                      searchVars,
                      writerVars>>
    \/ UpsertReturns
          /\ UNCHANGED <<chunkVars, retryVars, promptVars, queryVars,
                         chunkIdVars, embedVars, batchVars,
                      searchVars,
                      writerVars>>
    \/ UpsertRaises
          /\ UNCHANGED <<chunkVars, retryVars, promptVars, queryVars,
                         chunkIdVars, embedVars, batchVars,
                      searchVars,
                      writerVars>>

SpecUpsert == InitUpsert /\ [][NextUpsert]_vars

MaxSearchDocs == 3
MaxScore == 3
MaxTopK == 51

Sources == {"a.txt", "b.md"}

\* collections of up to MaxSearchDocs documents, _id i at position i
SearchCollections ==
    UNION {[1..n -> [metadata : [source : Sources], score : 1..MaxScore]]
              : n \in 0..MaxSearchDocs}

WithIds(c) ==
    [i \in DOMAIN c |-> [id |-> i, metadata |-> c[i].metadata,
                         score |-> c[i].score]]

\* filter_criteria: None, or one source
SearchFilters == {<<>>} \cup [source : Sources]

InitSearch ==
    /\ \E c \in SearchCollections : kn_collection = WithIds(c)
    /\ kn_top_k \in 1..MaxTopK
    /\ kn_filter \in SearchFilters
    /\ kn_pipeline = <<>>
    /\ kn_results = <<>>
    /\ kn_exc = "none"
    /\ kn_pc = "call"
    /\ IdleRetry /\ IdleChunk /\ IdlePrompt /\ IdleQuery /\ IdleIngest /\ IdleChunkId /\ IdleEmbed /\ IdleBatch /\ IdleUpsert /\ IdleWriters

NextSearch ==
    \/ KnnSearchReturns
          /\ UNCHANGED <<chunkVars, retryVars, promptVars, queryVars,
                         ingestVars, chunkIdVars, embedVars, batchVars,
                         upsertVars,
                      writerVars>>
    \/ KnnSearchRaises("OperationFailure")
          /\ UNCHANGED <<chunkVars, retryVars, promptVars, queryVars,
                         ingestVars, chunkIdVars, embedVars, batchVars,
                         upsertVars,
                      writerVars>>

SpecSearch == InitSearch /\ [][NextSearch]_vars

\* two calls of upsert_document with the same id
WriterArgs ==
    [doc_id : {"d1"}, text : DocTexts, embedding : Vectors,
     metadata : StoreMetadatas]

InitWriters ==
    /\ cw_args \in [Writers -> WriterArgs]
    /\ cw_pc = [w \in Writers |-> "call"]
    /\ cw_order = <<>>
    /\ IdleRetry /\ IdleChunk /\ IdlePrompt /\ IdleQuery /\ IdleIngest /\ IdleChunkId /\ IdleEmbed /\ IdleBatch /\ IdleUpsert /\ IdleSearch

NextWriters ==
    \/ (\E w \in Writers : WriterBuilds(w))
          /\ UNCHANGED <<chunkVars, retryVars, promptVars, queryVars,
                         chunkIdVars, embedVars, batchVars, upsertVars,
                         searchVars>>
    \/ (\E w \in Writers : WriterReplaced(w))
          /\ UNCHANGED <<chunkVars, retryVars, promptVars, queryVars,
                         chunkIdVars, embedVars, batchVars, upsertVars,
                         searchVars>>
    \/ (\E w \in Writers : WriterRaises(w))
          /\ UNCHANGED <<chunkVars, retryVars, promptVars, queryVars,
                         chunkIdVars, embedVars, batchVars, upsertVars,
                         searchVars>>

SpecWriters == InitWriters /\ [][NextWriters]_vars

\* chunk_text on texts of words and spaces with wider windows
MaxWideTextLen == 7
MaxWideWindow == 6

WideTexts == UNION {[1..n -> {"a", " "}] : n \in 0..MaxWideTextLen}

InitChunkWide ==
    /\ raw_text \in WideTexts
    /\ arg_max_chunk_size \in 0..MaxWideWindow
    /\ arg_overlap \in 0..MaxOverlapArg
    /\ text = <<>>
    /\ max_chunk_size = 0
    /\ overlap = 0
    /\ start = 0
    /\ end = 0
    /\ chunks = <<>>
    /\ ck_pc = "call"
    /\ IdleRetry /\ IdlePrompt /\ IdleQuery /\ IdleIngest /\ IdleChunkId /\ IdleEmbed /\ IdleBatch /\ IdleUpsert /\ IdleSearch /\ IdleWriters

SpecChunkWide == InitChunkWide /\ [][NextChunk]_vars

InitText == InitChunk

NextText ==
    \/ in_pc = "idle" /\ ChunkCall
          /\ UNCHANGED <<retryVars, promptVars, queryVars, ingestVars,
                      chunkIdVars,
                      embedVars,
                      batchVars,
                      upsertVars,
                      searchVars,
                      writerVars>>
    \/ in_pc = "idle" /\ ChunkStep
          /\ UNCHANGED <<retryVars, promptVars, queryVars, ingestVars,
                      chunkIdVars,
                      embedVars,
                      batchVars,
                      upsertVars,
                      searchVars,
                      writerVars>>
    \/ in_pc = "idle" /\ ChunkReturn
          /\ UNCHANGED <<retryVars, promptVars, queryVars, ingestVars,
                      chunkIdVars,
                      embedVars,
                      batchVars,
                      upsertVars,
                      searchVars,
                      writerVars>>
    \/ (\E fp \in FilePaths, md \in Metadatas : IngestParsed(fp, md))
          /\ UNCHANGED <<retryVars, promptVars, queryVars,
                      chunkIdVars,
                      embedVars,
                      batchVars,
                      upsertVars,
                      searchVars,
                      writerVars>>
    \/ in_pc = "chunk" /\ ChunkCall
          /\ UNCHANGED <<retryVars, promptVars, queryVars, ingestVars,
                      chunkIdVars,
                      embedVars,
                      batchVars,
                      upsertVars,
                      searchVars,
                      writerVars>>
    \/ IngestChunked
          /\ UNCHANGED <<chunkVars, retryVars, promptVars, queryVars,
                      chunkIdVars,
                      embedVars,
                      batchVars,
                      upsertVars,
                      searchVars,
                      writerVars>>
    \/ (\E v \in Vectors : IngestEmbedReturns(v))
          /\ UNCHANGED <<chunkVars, retryVars, promptVars, queryVars,
                      chunkIdVars,
                      embedVars,
                      batchVars,
                      upsertVars,
                      searchVars,
                      writerVars>>
    \/ (\E e \in IngestFailures : IngestEmbedRaises(e))
          /\ UNCHANGED <<chunkVars, retryVars, promptVars, queryVars,
                      chunkIdVars,
                      embedVars,
                      batchVars,
                      upsertVars,
                      searchVars,
                      writerVars>>
    \/ IngestUpsertReturns
          /\ UNCHANGED <<chunkVars, retryVars, promptVars, queryVars,
                      chunkIdVars,
                      embedVars,
                      batchVars,
                      upsertVars,
                      searchVars,
                      writerVars>>
    \/ (\E e \in IngestFailures : IngestUpsertRaises(e))
          /\ UNCHANGED <<chunkVars, retryVars, promptVars, queryVars,
                      chunkIdVars,
                      embedVars,
                      batchVars,
                      upsertVars,
                      searchVars,
                      writerVars>>
    \/ IngestFileDone
          /\ UNCHANGED <<chunkVars, retryVars, promptVars, queryVars,
                      chunkIdVars,
                      embedVars,
                      batchVars,
                      upsertVars,
                      searchVars,
                      writerVars>>

SpecText == InitText /\ [][NextText]_vars

\* two calls of generate_chunk_id, on every two pairs of the bounds; the
\* paths are made of a letter, the separator and a digit
PathChars == {"a", ":", "1"}
Paths == UNION {[1..n -> PathChars] : n \in 0..MaxPathLen}
ChunkIdCalls == [file_path : Paths, chunk_index : 0..MaxChunkIndex]

InitChunkId ==
    /\ id_in \in [1..2 -> ChunkIdCalls]
    /\ id_out = <<>>
    /\ IdleChunk /\ IdleRetry /\ IdlePrompt /\ IdleQuery /\ IdleIngest /\ IdleEmbed /\ IdleBatch /\ IdleUpsert /\ IdleSearch /\ IdleWriters

NextChunkId ==
    GenerateChunkId
        /\ UNCHANGED <<chunkVars, retryVars, promptVars, queryVars, ingestVars,
                      embedVars,
                      batchVars,
                      upsertVars,
                      searchVars,
                      writerVars>>

SpecChunkId == InitChunkId /\ [][NextChunkId]_vars

(***************************************************************************)
(* The claims                                                              *)
(***************************************************************************)
\* calculate_token_count("\n\n".join(context_parts)): the estimate of the
\* context build_prompt assembled
ContextTokens == calculate_token_count(JoinedLen(context_parts))

\* C1: for any sequence of retrieved documents and any budget
\* max_context_tokens, the context build_prompt assembles (the "[Document i]"
\* blocks joined together) has an estimated token count of at most the budget.
C1_ContextWithinBudget ==
    pr_pc = "done" => ContextTokens <= max_context_tokens

\* the failures the specification calls transient: rate limit, transient
\* server error, timeout, connection failure
TransientErrors ==
    {"RateLimitError", "InternalServerError", "APITimeoutError",
     "APIConnectionError"}

\* the failures the specification calls permanent: malformed request,
\* authentication failure
PermanentErrors == {"BadRequestError", "AuthenticationError"}

\* every remote call of the provider call so far failed with a transient error
AllAttemptsTransient ==
    /\ rt_calls = Len(rt_errors)
    /\ \A k \in 1..Len(rt_errors) : rt_errors[k] \in TransientErrors

\* C2: a provider call (embedding or generative) whose remote call fails with
\* a transient error on every attempt makes exactly MAX_RETRIES remote
\* attempts and then raises to its caller; it never makes more attempts than
\* the ceiling and never returns a value.
C2_TransientRetriedToCeiling ==
    /\ rt_calls <= MAX_RETRIES
    /\ (rt_pc \in {"returned", "raised"} /\ AllAttemptsTransient)
          => (rt_pc = "raised" /\ rt_calls = MAX_RETRIES)
    /\ (rt_pc = "attempt" /\ AllAttemptsTransient) => rt_calls < MAX_RETRIES

\* C2's case: an embedding call gave up after a rate limit, a server error
\* and a timeout
C2_Witness ==
    /\ rt_pc = "raised"
    /\ rt_fn = "_call_embedding_api"
    /\ rt_errors = <<"RateLimitError", "InternalServerError", "APITimeoutError">>
    /\ rt_outcome = "RetryError"

\* C3: a provider call whose remote call fails with a permanent error (a
\* malformed request, an authentication failure) raises on the first
\* occurrence: exactly one remote attempt is made and no backoff wait happens.
C3_PermanentRaisesAtOnce ==
    \A k \in 1..Len(rt_errors) :
        rt_errors[k] \in PermanentErrors
            => (rt_pc = "raised" /\ rt_calls = 1 /\ rt_waits = <<>>)

\* ingest_file returned for a file whose last completed ingestion had the
\* same content
ReingestedUnchanged ==
    /\ in_pc = "returned"
    /\ hist[file_path].ingested
    /\ hist[file_path].content = in_chunks

\* C4: an ingestion of a source that was ingested before with the same
\* content returns the same sequence of chunk ids as that earlier ingestion,
\* and adds no id to the store: the store holds after it exactly the ids it
\* held when it began.
C4_ReingestIdempotent ==
    ReingestedUnchanged =>
        /\ chunk_ids = hist[file_path].ids
        /\ DOMAIN store = ids_at_call

\* C4's case: a file of two chunks was ingested a second time, unchanged
C4_Witness ==
    /\ ReingestedUnchanged
    /\ Len(chunk_ids) = 2
    /\ in_upserted = <<0, 1>>

\* the indices 0 .. n-1 in order
IndicesBelow(n) == [k \in 1..n |-> k - 1]

\* C5: in ingest_file, if embedding or upserting chunk i fails, the failure
\* propagates to the caller, no chunk of index greater than i is embedded or
\* upserted, and exactly the chunks of index less than i have been upserted,
\* in order: the ids collected and the records written are those of a prefix.
C5_FailureLeavesPrefix ==
    in_failed # NoIngestFailure =>
        LET i == in_failed.at
        IN  /\ in_pc = "raised"
            /\ in_exc = in_failed.exc
            /\ in_upserted = IndicesBelow(i)
            /\ \A k \in 1..Len(in_embedded) : in_embedded[k] <= i
            /\ chunk_ids = [k \in 1..i |-> generate_chunk_id(file_path, k - 1)]
            /\ \A k \in 0..(Len(in_chunks) - 1) :
                  LET id == generate_chunk_id(file_path, k)
                  IN  IF k < i
                      THEN /\ id \in DOMAIN store
                           /\ store[id].text = in_chunks[k + 1]
                      ELSE id \in DOMAIN store => id \in ids_at_call

\* C5's case: the upsert of the second chunk of a file failed after the first
\* chunk was embedded and upserted
C5_Witness ==
    /\ in_failed = [at |-> 1, exc |-> "OperationFailure"]
    /\ in_pc = "raised"
    /\ in_embedded = <<0, 1>>
    /\ in_upserted = <<0>>

\* C6: in ingest_directory a failure while ingesting one file never prevents
\* a later discovered file from being ingested: ingest_file is called on the
\* discovered files in order whatever the earlier calls did, the call raises
\* only before the first file (the directory is missing), and it returns one
\* entry per discovered file, the failed file mapped to the empty list and
\* every other file to the chunk ids its own ingestion returned.
C6_DirectoryIsolatesFailures ==
    /\ \A k \in 1..Len(d_log) : d_log[k].file = d_files[k]
    /\ d_pc = "raised" => d_log = <<>>
    /\ d_pc = "returned" =>
          /\ Len(d_log) = Len(d_files)
          /\ DOMAIN results = {d_files[k] : k \in 1..Len(d_files)}
          /\ \A k \in 1..Len(d_log) :
                results[d_log[k].file] =
                    IF d_log[k].raised THEN <<>> ELSE d_log[k].ids

\* C6's case: the first file failed after one of its chunks was upserted, the
\* second file was ingested, and ingest_directory returned
C6_Witness ==
    /\ d_pc = "returned"
    /\ Len(d_log) = 2
    /\ d_log[1].raised
    /\ d_log[1].ids # <<>>
    /\ ~d_log[2].raised
    /\ results[d_log[2].file] # <<>>

\* mongo_knn_search returned to retrieve, and retrieve to query
SearchReturned ==
    \/ q_pc \in {"llm", "returned"}
    \/ q_pc = "raised" /\ q_failed.step = "llm"

\* C7: when the vector search returns zero documents, query returns the
\* canned answer with an empty sources list, without raising and without
\* making any generative call.
C7_NoDocumentsCannedAnswer ==
    (SearchReturned /\ retrieved_docs = <<>>) =>
        /\ q_pc = "returned"
        /\ q_result = [answer |-> CannedAnswer, sources |-> <<>>,
                       returned |-> TRUE]
        /\ q_exc = "none"
        /\ llm_calls = 0

\* C7's case: a search for a non-empty question came back empty
C7_Witness ==
    /\ q_pc = "returned"
    /\ question # ""
    /\ retrieved_docs = <<>>
    /\ q_result.returned

\* C8: a failure that get_embedding, mongo_knn_search or call_llm raises to
\* query makes query raise that same failure to its caller; query then
\* returns no result, in particular not the canned answer.
C8_FailurePropagates ==
    q_failed # NoFailure =>
        /\ q_pc = "raised"
        /\ q_exc = q_failed.exc
        /\ q_result = NoResult

\* C8's case: the generative call failed after documents were retrieved
C8_Witness ==
    /\ q_failed = [step |-> "llm", exc |-> "RetryError"]
    /\ retrieved_docs # <<>>
    /\ q_pc = "raised"

\* C9: over the whole scan of chunk_text the window start never decreases and
\* never becomes negative (the next start is end - overlap, clamped at the
\* previous start); stated for an overlap smaller than the window.
C9_StartNeverRegresses ==
    [][(ck_pc = "loop" /\ ck_pc' = "loop" /\ overlap < max_chunk_size)
          => (start' >= start /\ start' >= 0)]_vars

\* C10: when chunk_text returns for a text whose normalized length exceeds
\* max_chunk_size, it returns at least 2 chunks, none of them empty, each at
\* most max_chunk_size plus the slack the test allows (a tenth of it) long.
C10_LongTextChunks ==
    (ck_pc = "done" /\ Len(Normalize(raw_text)) > max_chunk_size) =>
        /\ Len(chunks) >= 2
        /\ \A k \in 1..Len(chunks) :
              /\ Strip(chunks[k]) # <<>>
              /\ Len(chunks[k]) <= max_chunk_size + (max_chunk_size \div 10)

\* C10's case: a long text was scanned to its end with a positive overlap
\* smaller than the window, and came out in three chunks or more
C10_Witness ==
    /\ ck_pc = "done"
    /\ Len(Normalize(raw_text)) > max_chunk_size
    /\ arg_overlap > 0
    /\ overlap < max_chunk_size
    /\ Len(chunks) >= 3

\* the length of the first word of t, a text that starts with no whitespace
WordLen(t) ==
    CHOOSE n \in 0..Len(t) :
        /\ \A k \in 1..n : t[k] \notin Whitespace
        /\ n = Len(t) \/ t[n + 1] \in Whitespace

\* the words of s: its maximal runs of characters that are not whitespace
RECURSIVE Words(_)
Words(s) ==
    LET t == LStrip(s)
    IN  IF t = <<>> THEN <<>>
        ELSE <<SubSeq(t, 1, WordLen(t))>>
                 \o Words(SubSeq(t, WordLen(t) + 1, Len(t)))

\* the words separated by one space each
RECURSIVE JoinWords(_)
JoinWords(ws) ==
    IF ws = <<>> THEN <<>>
    ELSE IF Len(ws) = 1 THEN ws[1]
    ELSE ws[1] \o <<" ">> \o JoinWords(Tail(ws))

\* the whitespace-normalized form of the text handed to chunk_text
NormalForm == JoinWords(Words(raw_text))

\* C11 as stated: for any text whose whitespace-normalized form is at most
\* max_chunk_size long, chunk_text returns exactly one chunk, the normalized
\* form of the text (whitespace runs collapsed to one space, no whitespace at
\* the ends).
C11_ShortTextOneChunk_AsStated ==
    (ck_pc = "done" /\ Len(NormalForm) <= max_chunk_size)
        => chunks = <<NormalForm>>

\* C11: for any text with at least one character that is not whitespace,
\* whose whitespace-normalized form is at most max_chunk_size long,
\* chunk_text returns exactly one chunk, the normalized form of the text.
C11_ShortTextOneChunk ==
    (ck_pc = "done" /\ NormalForm # <<>> /\ Len(NormalForm) <= max_chunk_size)
        => chunks = <<NormalForm>>

\* C11's case: a text with whitespace at its start and a run of whitespace
\* inside came back as one chunk, shorter than the text
C11_Witness ==
    /\ ck_pc = "done"
    /\ arg_max_chunk_size > 0
    /\ raw_text # <<>>
    /\ Head(raw_text) \in Whitespace
    /\ Len(Words(raw_text)) >= 2
    /\ Len(chunks) = 1
    /\ Len(chunks[1]) + 2 <= Len(raw_text)
    /\ Len(chunks[1]) <= max_chunk_size

\* the text handed over is empty or of whitespace only
BlankText == Words(raw_text) = <<>>

\* C12: an empty or whitespace-only input is no error: chunk_text returns
\* zero chunks for it, and ingest_file of a file with such a text returns the
\* empty id list without raising, without embedding and without upserting
\* anything.
C12_BlankInputNoChunks ==
    BlankText =>
        /\ ck_pc = "done" => chunks = <<>>
        /\ file_path # "none" =>
              /\ in_pc = "returned"
              /\ chunk_ids = <<>>
              /\ in_exc = "none"
              /\ in_embedded = <<>>
              /\ in_upserted = <<>>
              /\ store = <<>>

\* C12's case: ingest_file returned for a file of two spaces
C12_Witness ==
    /\ raw_text = <<" ", " ">>
    /\ file_path = "a.txt"
    /\ in_pc = "returned"

SentenceTerminals == {".", "!", "?"}

\* the positions (0-based) of the window text[s : s + max_chunk_size]
WindowPositions(s) ==
    AdjustIndex(s, Len(text)) ..
        (AdjustIndex(s + max_chunk_size, Len(text)) - 1)

\* where a sentence terminal followed by a space lies inside the window
SentenceEnds(s) ==
    {p \in WindowPositions(s) :
        /\ p + 1 \in WindowPositions(s)
        /\ text[p + 1] \in SentenceTerminals
        /\ text[p + 2] = " "}

\* where a space lies inside the window
Spaces(s) == {p \in WindowPositions(s) : text[p + 1] = " "}

\* the end the claim gives the window that starts at s, the boundaries
\* looked for among the positions in B
BoundaryEnd(s, B) ==
    IF SentenceEnds(s) \cap B # {} THEN SetMax(SentenceEnds(s) \cap B) + 1
    ELSE IF Spaces(s) \cap B # {} THEN SetMax(Spaces(s) \cap B)
    ELSE s + max_chunk_size

\* a step of the scan that emits a chunk from a window that does not reach
\* the end of the text
NonFinalWindowStep ==
    /\ ck_pc = "loop" /\ ck_pc' = "loop"
    /\ start + max_chunk_size < Len(text)
    /\ chunks' # chunks

C14_ChunkIdDeterministicInjective ==
    Len(id_out) = 2 => (id_out[1] = id_out[2] <=> id_in[1] = id_in[2])

\* C14's case: the ids of ("a", 12) and ("a1", 2), whose path and index
\* written one after the other read the same, differ
C14_Witness ==
    /\ Len(id_out) = 2
    /\ id_in[1] = [file_path |-> <<"a">>, chunk_index |-> 12]
    /\ id_in[2] = [file_path |-> <<"a", "1">>, chunk_index |-> 2]
    /\ id_out[1] # id_out[2]

\* ingest_file is running or has returned, and no chunk failed
IngestUnfailed ==
    /\ in_pc \in {"embed", "upsert", "returned"}
    /\ in_failed = NoIngestFailure

\* the metadata the claim gives the record of chunk k of n
OverlaidMetadata(k, n) ==
    [key \in {"source_file", "chunk_index", "total_chunks"} \cup DOMAIN metadata |->
        IF key \in DOMAIN metadata THEN metadata[key]
        ELSE IF key = "source_file" THEN file_path
        ELSE IF key = "chunk_index" THEN k
        ELSE n]

\* C15: a successful ingest_file of a source of n chunks processes the
\* chunks in index order, embedding chunk i before upserting it and upserting
\* it before embedding chunk i + 1; it returns the n ids
\* generate_chunk_id(source, 0..n-1) in that order; and the record stored for
\* chunk i holds the chunk's text and the metadata {source_file, chunk_index
\* = i, total_chunks = n} overlaid with the caller's metadata, whose keys win
\* on a collision.
C15_SuccessfulIngestOrder ==
    IngestUnfailed =>
        /\ in_upserted = IndicesBelow(in_i)
        /\ in_embedded =
              IndicesBelow(IF in_pc = "upsert" THEN in_i + 1 ELSE in_i)
        /\ chunk_ids = [k \in 1..in_i |-> generate_chunk_id(file_path, k - 1)]
        /\ in_pc = "returned" => in_i = Len(in_chunks)
        /\ \A k \in 0..(in_i - 1) :
              LET rec == store[generate_chunk_id(file_path, k)]
              IN  /\ rec.text = in_chunks[k + 1]
                  /\ rec.metadata = OverlaidMetadata(k, Len(in_chunks))

\* C15's case: a file of two chunks was ingested with caller metadata that
\* has a chunk_index key of its own
C15_Witness ==
    /\ in_pc = "returned"
    /\ in_failed = NoIngestFailure
    /\ Len(chunk_ids) = 2
    /\ "chunk_index" \in DOMAIN metadata
    /\ store[chunk_ids[2]].metadata.chunk_index = 99
    /\ store[chunk_ids[2]].metadata.total_chunks = 2

\* C16: get_embedding refuses a text that is empty or holds only whitespace:
\* it raises ValueError, returns nothing, and no remote call was made for it.
C16_EmptyTextRejected ==
    (emb_pc # "call" /\ \A i \in 1..Len(emb_text) : emb_text[i] = " ")
        => /\ emb_pc = "raised"
           /\ emb_exc = "ValueError"
           /\ emb_result = "none"
           /\ rt_calls = 0
           /\ rt_pc = "idle"

C16_Witness ==
    /\ emb_pc = "raised"
    /\ Len(emb_text) = 2
    /\ emb_text[1] = " " /\ emb_text[2] = " "
    /\ emb_exc = "ValueError"

\* ceil(n / b) for b >= 1
CeilDiv(n, b) == (n + b - 1) \div b

\* the k-th group of the input: texts (k-1)*b + 1 .. min(k*b, n)
GroupOfInput(k) ==
    LET lo == (k - 1) * batch_size
        hi == IF k * batch_size < Len(bt_texts) THEN k * batch_size
              ELSE Len(bt_texts)
    IN  [j \in 1..(hi - lo) |-> bt_texts[lo + j]]

\* C17: with batch size b >= 1, get_embeddings_batch sends the groups of the
\* input one after another in input order; when it returns it has sent exactly
\* ceil(n / b) requests and returns n vectors, the i-th being the vector of
\* the i-th text; when a request fails the call raises and returns nothing.
C17_BatchGroupsInOrder ==
    (batch_size >= 1 /\ bt_pc # "call") =>
        /\ Len(bt_requests) <= CeilDiv(Len(bt_texts), batch_size)
        /\ \A k \in 1..Len(bt_requests) : bt_requests[k] = GroupOfInput(k)
        /\ bt_pc = "returned" =>
              /\ Len(bt_requests) = CeilDiv(Len(bt_texts), batch_size)
              /\ Len(bt_result) = Len(bt_texts)
              /\ \A i \in 1..Len(bt_texts) :
                    bt_result[i] = [embedding_of |-> bt_texts[i]]
              /\ bt_exc = "none"
        /\ bt_pc = "raised" => bt_result = <<>> /\ bt_exc # "none"

C17_Witness ==
    /\ bt_pc = "returned"
    /\ Len(bt_texts) = 4
    /\ batch_size = 3
    /\ Len(bt_requests) = 2
    /\ bt_texts[1] # bt_texts[4]

C17_FailureWitness ==
    /\ bt_pc = "raised"
    /\ batch_size = 2
    /\ Len(bt_requests) = 2
    /\ embeddings # <<>>

\* C18: when upsert_document returns, the record stored under its id holds
\* exactly the text, vector and metadata of the call (no metadata key of the
\* record it replaced is left), every record under another id is as it was
\* before the call, and the collection has one record more exactly when the
\* id was not in it before.
C18_UpsertFullReplace ==
    up_pc = "returned" =>
        /\ up_args.doc_id \in DOMAIN store
        /\ store[up_args.doc_id].text = up_args.text
        /\ store[up_args.doc_id].embedding = up_args.embedding
        /\ DOMAIN store[up_args.doc_id].metadata = DOMAIN up_args.metadata
        /\ \A m \in DOMAIN up_args.metadata :
              store[up_args.doc_id].metadata[m] = up_args.metadata[m]
        /\ DOMAIN store[up_args.doc_id] = {"text", "embedding", "metadata"}
        /\ \A d \in DOMAIN up_before \ {up_args.doc_id} :
              d \in DOMAIN store /\ store[d] = up_before[d]
        /\ DOMAIN store \subseteq DOMAIN up_before \cup {up_args.doc_id}
        /\ Cardinality(DOMAIN store) =
              Cardinality(DOMAIN up_before)
                  + (IF up_args.doc_id \in DOMAIN up_before THEN 0 ELSE 1)

C18_Witness ==
    /\ up_pc = "returned"
    /\ up_args.doc_id \in DOMAIN up_before
    /\ DOMAIN up_before[up_args.doc_id].metadata = {"author", "lang"}
    /\ DOMAIN up_args.metadata = {"lang"}
    /\ Cardinality(DOMAIN store) = 2

\* C19: for every top_k >= 1 the pipeline of mongo_knn_search asks the index
\* for more candidates than top_k, and the results returned are at most top_k,
\* in order of descending score.
C19_CandidatePoolAboveTopK ==
    kn_pc \in {"returned", "raised"} =>
        /\ kn_pipeline[1].stage = "$vectorSearch"
        /\ kn_pipeline[1].numCandidates > kn_top_k
        /\ kn_pc = "returned" =>
              /\ Len(kn_results) <= kn_top_k
              /\ \A i \in 1..(Len(kn_results) - 1) :
                    kn_results[i].score >= kn_results[i + 1].score

\* The rest of C19 without the size of the candidate pool: at most top_k
\* results, in order of descending score.
C19_AtMostTopKDescending ==
    kn_pc = "returned" =>
        /\ Len(kn_results) <= kn_top_k
        /\ \A i \in 1..(Len(kn_results) - 1) :
              kn_results[i].score >= kn_results[i + 1].score

\* the documents of the collection whose metadata satisfy the filter
MatchingDocs ==
    {kn_collection[i] : i \in {j \in DOMAIN kn_collection :
        \A key \in DOMAIN kn_filter :
            kn_collection[j].metadata[key] = kn_filter[key]}}

ResultIds == {kn_results[i].id : i \in DOMAIN kn_results}

\* C20: with a filter, the results of mongo_knn_search are the top_k best
\* scoring documents among those that match the filter: min(top_k, number of
\* matching documents) of them, all matching, and no matching document left
\* out scores higher than one returned.
C20_FilterBeforeRanking ==
    (kn_pc = "returned" /\ kn_filter # <<>>) =>
        /\ Len(kn_results) =
              (IF kn_top_k < Cardinality(MatchingDocs) THEN kn_top_k
               ELSE Cardinality(MatchingDocs))
        /\ ResultIds \subseteq {d.id : d \in MatchingDocs}
        /\ \A d \in MatchingDocs :
              d.id \notin ResultIds =>
                  \A i \in DOMAIN kn_results : kn_results[i].score >= d.score

\* C21: every record of the store has an embedding of the one dimension the
\* index is configured for, so whatever that dimension is no two records
\* differ in the dimension of their embeddings: an upsert with a vector of
\* another dimension does not return and leaves the store as it was.
C21_OneEmbeddingDimension ==
    /\ \A a \in DOMAIN store, b \in DOMAIN store :
          Len(store[a].embedding) = Len(store[b].embedding)
    /\ (up_pc = "returned" /\ up_before # <<>>) =>
          \A a \in DOMAIN up_before :
              Len(up_args.embedding) = Len(up_before[a].embedding)

\* the context build_prompt makes of the retrieved documents of the query
PromptOfQuery ==
    BuildContext(retrieved_docs, 1, <<>>, 0, DEFAULT_MAX_CONTEXT_TOKENS).context_parts

\* C22: when query returns with at least one retrieved document, sources has
\* one entry per retrieved document, in retrieval order, with the text, score
\* and metadata of that document as retrieved, whether the prompt holds the
\* document whole, truncated or not at all.
C22_SourcesAreRetrievedDocs ==
    (q_pc = "returned" /\ retrieved_docs # <<>>) =>
        /\ Len(q_result.sources) = Len(retrieved_docs)
        /\ \A k \in 1..Len(retrieved_docs) :
              /\ q_result.sources[k].text = retrieved_docs[k].text
              /\ q_result.sources[k].score = retrieved_docs[k].score
              /\ q_result.sources[k].metadata = retrieved_docs[k].metadata

\* a query returned three documents: the prompt holds the first whole, the
\* second cut short and the third not at all
C22_Witness ==
    /\ q_pc = "returned"
    /\ Len(retrieved_docs) = 3
    /\ Len(PromptOfQuery) = 2
    /\ PromptOfQuery[1].text = retrieved_docs[1].text
    /\ PromptOfQuery[2].text < retrieved_docs[2].text
    /\ Len(q_result.sources) = 3

\* the estimated tokens of the documents before the k-th, each counted whole
RECURSIVE TokensBefore(_)
TokensBefore(k) ==
    IF k <= 1 THEN 0
    ELSE TokensBefore(k - 1) + (pr_docs[k - 1].text \div 4)

\* the k-th document fits whole into what the documents before it left
FitsWhole(k) ==
    TokensBefore(k) + (pr_docs[k].text \div 4) <= max_context_tokens

\* C23: the context of build_prompt holds the documents 1..n of the retrieval
\* order for some n. A document that fits into the remaining budget is there
\* whole. A document that does not fit is there only if more than 100 tokens
\* remained, cut to the remaining tokens, and it is the last one. The first
\* document left out did not fit, and either the one before it was cut or at
\* most 100 tokens remained.
C23_ContextIsPrefixOneTruncated ==
    pr_pc = "done" =>
        LET n == Len(context_parts)
        IN  /\ n <= Len(pr_docs)
            /\ \A k \in 1..n :
                  /\ context_parts[k].index = k
                  /\ IF FitsWhole(k)
                     THEN context_parts[k].text = pr_docs[k].text
                     ELSE /\ max_context_tokens - TokensBefore(k) > 100
                          /\ context_parts[k].text =
                                (max_context_tokens - TokensBefore(k)) * 4
                          /\ context_parts[k].text < pr_docs[k].text
                          /\ k = n
            /\ n < Len(pr_docs) =>
                  \/ n >= 1 /\ ~FitsWhole(n)
                  \/ /\ ~FitsWhole(n + 1)
                     /\ max_context_tokens - TokensBefore(n + 1) <= 100

C23_Witness ==
    /\ pr_pc = "done"
    /\ Len(pr_docs) = 3
    /\ Len(context_parts) = 2
    /\ context_parts[1].text = pr_docs[1].text
    /\ context_parts[2].text < pr_docs[2].text
    /\ pr_docs[3].text > 0

\* build_prompt stopped in front of a document with nothing cut: the document
\* did not fit and at most 100 tokens remained
C23_WitnessLeftOut ==
    /\ pr_pc = "done"
    /\ Len(context_parts) = 1
    /\ Len(pr_docs) = 2
    /\ context_parts[1].text = pr_docs[1].text

\* the failures of a vector-store call the specification calls transient
TransientStoreErrors == {"ServerSelectionTimeoutError"}

\* C24: one transient failure of a vector-store call does not by itself fail
\* the pipeline: the step in which mongo_knn_search fails for the first time
\* with a transient error leaves query waiting for a retry, not raised.
C24_StoreFailureRetried ==
    [][(q_pc = "search" /\ q_failed'.step = "search"
            /\ q_failed'.exc \in TransientStoreErrors)
          => q_pc' # "raised"]_vars

\* the record a writer asked for
RecordOf(w) ==
    [text |-> cw_args[w].text, embedding |-> cw_args[w].embedding,
     metadata |-> cw_args[w].metadata]

\* C25: when two concurrent upserts of one id have both returned, in whatever
\* order their steps were taken, the store holds exactly one record, under
\* that id, and it is the whole record of the writer whose write came last.
C25_LastWriteWins ==
    (cw_pc # <<>> /\ \A w \in Writers : cw_pc[w] = "returned") =>
        /\ DOMAIN store = {"d1"}
        /\ Len(cw_order) = 2
        /\ store["d1"] = RecordOf(cw_order[2])
        /\ \E w \in Writers : store["d1"] = RecordOf(w)

\* both returned, the writes differ in every field, and the one that called
\* first was applied last
C25_Witness ==
    /\ cw_pc # <<>>
    /\ \A w \in Writers : cw_pc[w] = "returned"
    /\ cw_order = <<"w2", "w1">>
    /\ cw_args["w1"].text # cw_args["w2"].text
    /\ cw_args["w1"].embedding # cw_args["w2"].embedding
    /\ cw_args["w1"].metadata # cw_args["w2"].metadata

\* C26: chunk_text returns for every text, every max_chunk_size >= 1 and every
\* overlap below it. The loop is deterministic in start, so it can only end
\* if no iteration that stays in the loop leaves start where it was; stated
\* for the overlaps from 1 on, which the code takes as passed.
C26_EveryIterationMovesStart ==
    [][(ck_pc = "loop" /\ ck_pc' = "loop"
            /\ 1 <= arg_overlap /\ arg_overlap < arg_max_chunk_size)
          => start' # start]_vars

\* C27: chunk_text works with the max_chunk_size and the overlap it was
\* passed, an overlap of 0 included; with an overlap of 0 every iteration
\* that stays in the loop starts the next window at the end of this one.
C27_ArgumentsUsedAsPassed ==
    /\ (ck_pc \in {"loop", "done"} /\ arg_max_chunk_size >= 1) =>
          /\ max_chunk_size = arg_max_chunk_size
          /\ overlap = arg_overlap
    /\ (ck_pc = "loop" /\ arg_max_chunk_size >= 1 /\ arg_overlap = 0
            /\ chunks # <<>>) => start = end

\* chunk k of the returned list stands in the text at the 0-based position p
ChunkAt(k, p) ==
    /\ p + Len(chunks[k]) <= Len(text)
    /\ \A j \in 1..Len(chunks[k]) : text[p + j] = chunks[k][j]

\* C28: when chunk_text returns for a text longer than max_chunk_size, the
\* chunks can be laid on the normalized text, each as a contiguous substring,
\* in text order, so that every position holding a non-space character lies
\* inside at least one chunk.
C28_NoTextLost ==
    (ck_pc = "done" /\ Len(text) > max_chunk_size /\ Strip(raw_text) # <<>>) =>
        \E at \in [1..Len(chunks) -> 0..(Len(text) - 1)] :
            /\ \A k \in 1..Len(chunks) : ChunkAt(k, at[k])
            /\ \A k \in 1..(Len(chunks) - 1) : at[k] <= at[k + 1]
            /\ \A i \in 1..Len(text) :
                  text[i] # " " =>
                      \E k \in 1..Len(chunks) :
                          at[k] < i /\ i <= at[k] + Len(chunks[k])

\* C29: when ingest_file has returned for a source with n >= 1 chunks, every record
\* the store holds for a chunk of that source is one of the chunks 0 .. n-1
\* of this ingestion and says total_chunks = n, whatever an earlier ingestion
\* of the source wrote.
C29_NoStaleChunks ==
    (in_pc = "returned" /\ file_path # "none" /\ Len(in_chunks) >= 1) =>
        \A k \in 0..MaxFileChunks :
            generate_chunk_id(file_path, k) \in DOMAIN store =>
                /\ k < Len(in_chunks)
                /\ store[generate_chunk_id(file_path, k)].metadata.total_chunks
                      = Len(in_chunks)

\* the sum of a sequence of waits
RECURSIVE SumOf(_)
SumOf(s) == IF s = <<>> THEN 0 ELSE Head(s) + SumOf(Tail(s))

\* C30: in one call of a retried provider function every wait before a retry
\* is at least 2 s and at most 10 s, no wait is shorter than the one before
\* it, and the waits add up to at most (MAX_RETRIES - 1) * 10 s.
C30_WaitsBounded ==
    /\ \A k \in 1..Len(rt_waits) : 2 <= rt_waits[k] /\ rt_waits[k] <= 10
    /\ \A k \in 1..(Len(rt_waits) - 1) : rt_waits[k] <= rt_waits[k + 1]
    /\ SumOf(rt_waits) <= (MAX_RETRIES - 1) * 10

\* a call that used both of its retries and then gave up
C30_Witness ==
    /\ rt_pc = "raised"
    /\ rt_outcome = "RetryError"
    /\ Len(rt_waits) = MAX_RETRIES - 1
    /\ rt_calls = MAX_RETRIES

====
